---- MODULE Spec2Model ----
(***************************************************************************)
(* Process-context publisher of open-telemetry/sig-profiling               *)
(* (process-context/c-and-cpp/otel_process_ctx.c): the publish / update /  *)
(* drop_current protocol over one header region, fork, the in-process      *)
(* reader, an out-of-process reader, and the protobuf codec.               *)
(*                                                                         *)
(* Strings are sequences of byte values (1..255) without their terminating *)
(* NUL; a NULL pointer to a string is the value NULL.  A NULL-terminated   *)
(* array of strings is the sequence of its entries before the terminator.  *)
(***************************************************************************)
EXTENDS Integers, Sequences, FiniteSets, TLC

\* ------------------------------------------------------------------ codec

KEY_VALUE_LIMIT == 4096
UINT14_MAX == 16383
resource_capacity == 201

NULL == << -1 >>

\* The seven identity keys, as bytes, in the order of the pairs[] array.
KeyDeploymentEnvironmentName == <<100,101,112,108,111,121,109,101,110,116,46,101,110,118,105,114,111,110,109,101,110,116,46,110,97,109,101>>
KeyServiceInstanceId == <<115,101,114,118,105,99,101,46,105,110,115,116,97,110,99,101,46,105,100>>
KeyServiceName == <<115,101,114,118,105,99,101,46,110,97,109,101>>
KeyServiceVersion == <<115,101,114,118,105,99,101,46,118,101,114,115,105,111,110>>
KeyTelemetrySdkLanguage == <<116,101,108,101,109,101,116,114,121,46,115,100,107,46,108,97,110,103,117,97,103,101>>
KeyTelemetrySdkVersion == <<116,101,108,101,109,101,116,114,121,46,115,100,107,46,118,101,114,115,105,111,110>>
KeyTelemetrySdkName == <<116,101,108,101,109,101,116,114,121,46,115,100,107,46,110,97,109,101>>

IdentityKeys ==
  << KeyDeploymentEnvironmentName, KeyServiceInstanceId, KeyServiceName, KeyServiceVersion,
     KeyTelemetrySdkLanguage, KeyTelemetrySdkVersion, KeyTelemetrySdkName >>

IdentityFields ==
  << "deployment_environment_name", "service_instance_id", "service_name", "service_version",
     "telemetry_sdk_language", "telemetry_sdk_version", "telemetry_sdk_name" >>

empty_data ==
  [ deployment_environment_name |-> NULL, service_instance_id |-> NULL, service_name |-> NULL,
    service_version |-> NULL, telemetry_sdk_language |-> NULL, telemetry_sdk_version |-> NULL,
    telemetry_sdk_name |-> NULL, resources |-> NULL ]

ok_result == [success |-> TRUE, error_message |-> "NULL"]
err_result(msg) == [success |-> FALSE, error_message |-> msg]

strlen(str) == Len(str)

\* The parameter is a uint16_t: the argument is converted on the call.
protobuf_varint_size(value) == IF value % 65536 >= 128 THEN 2 ELSE 1

protobuf_record_size(len) == 1 + protobuf_varint_size(len) + len

protobuf_string_size(str) == protobuf_record_size(strlen(str))

protobuf_otel_keyvalue_string_size(key, value) ==
  LET key_field_size == protobuf_string_size(key)
      value_field_size == protobuf_record_size(protobuf_string_size(value))
  IN key_field_size + value_field_size

\* The loops over an array are computed by halving the range, which gives what
\* the loop gives and keeps the evaluation shallow for arrays of 200 entries.

\* Entries of a NULL-terminated array before its first NULL (the first loop of
\* validate_and_calculate_protobuf_payload_size counts them).
num_entries(pairs) ==
  IF \A i \in 1..Len(pairs) : pairs[i] # NULL THEN Len(pairs)
  ELSE (CHOOSE i \in 1..Len(pairs) : pairs[i] = NULL /\ \A j \in 1..(i - 1) : pairs[j] # NULL) - 1

\* A validation that does not check the length of keys.
key_never_exceeds_limit(key) == FALSE

key_exceeds_limit(key) == strlen(key) > KEY_VALUE_LIMIT

\* A validation that does not check the length of values.
value_never_exceeds_limit(value) == FALSE

\* A validation that refuses a value of exactly the limit.
value_exceeds_limit_at_cap(value) == strlen(value) >= KEY_VALUE_LIMIT

value_exceeds_limit(value) == strlen(value) > KEY_VALUE_LIMIT

\* The second loop: pair i (0-based) is pairs[2i+1], pairs[2i+2] here.
\* pair_fails: the pair makes the loop return an error.
pair_fails(pairs, i) ==
  key_exceeds_limit(pairs[2 * i + 1]) \/ value_exceeds_limit(pairs[2 * i + 2])

\* *out_pairs_size after pairs lo..hi-1.
RECURSIVE pairs_size(_, _, _)
pairs_size(pairs, lo, hi) ==
  IF lo >= hi THEN 0
  ELSE IF hi = lo + 1
  THEN protobuf_record_size(protobuf_otel_keyvalue_string_size(pairs[2 * lo + 1], pairs[2 * lo + 2]))
  ELSE pairs_size(pairs, lo, (lo + hi) \div 2) + pairs_size(pairs, (lo + hi) \div 2, hi)

\* The loop returns at the first pair that fails, with the size up to it.
validate_pairs_failing(pairs, i) ==
  [ success |-> FALSE,
    error_message |-> IF key_exceeds_limit(pairs[2 * i + 1])
                      THEN "Length of key in otel_process_ctx_data exceeds 4096 limit"
                      ELSE "Length of value in otel_process_ctx_data exceeds 4096 limit",
    size |-> pairs_size(pairs, 0, i) ]

validate_pairs(pairs, n) ==
  IF \E i \in 0..(n - 1) : pair_fails(pairs, i)
  THEN validate_pairs_failing(pairs,
         CHOOSE i \in 0..(n - 1) : pair_fails(pairs, i) /\ \A j \in 0..(i - 1) : ~pair_fails(pairs, j))
  ELSE [success |-> TRUE, error_message |-> "NULL", size |-> pairs_size(pairs, 0, n)]

validate_and_calculate_protobuf_payload_size(pairs) ==
  IF num_entries(pairs) % 2 # 0
  THEN [success |-> FALSE, error_message |-> "Value in otel_process_ctx_data is NULL", size |-> 0]
  ELSE validate_pairs(pairs, num_entries(pairs) \div 2)

\* A varint writer that keeps the low byte only.
write_protobuf_varint_one_byte(value) == << value % 256 >>

write_protobuf_varint(value) ==
  LET v == value % 65536
  IN IF protobuf_varint_size(v) = 1
     THEN << v % 256 >>
     ELSE << ((v % 128) + 128) % 256, (v \div 128) % 256 >>

write_protobuf_string(str) == write_protobuf_varint(strlen(str)) \o str

write_protobuf_tag(field_number) == << ((field_number * 8) % 256) + 2 >>

write_attribute(key, value) ==
  write_protobuf_tag(1) \o write_protobuf_varint(protobuf_otel_keyvalue_string_size(key, value))
    \o write_protobuf_tag(1) \o write_protobuf_string(key)
    \o write_protobuf_tag(2) \o write_protobuf_varint(protobuf_string_size(value))
    \o write_protobuf_tag(1) \o write_protobuf_string(value)

\* What the write loop emits for pairs lo..hi-1 (lines 398-404).
RECURSIVE write_pairs(_, _, _)
write_pairs(pairs, lo, hi) ==
  IF lo >= hi THEN << >>
  ELSE IF hi = lo + 1 THEN write_attribute(pairs[2 * lo + 1], pairs[2 * lo + 2])
  ELSE write_pairs(pairs, lo, (lo + hi) \div 2) \o write_pairs(pairs, (lo + hi) \div 2, hi)

identity_pairs(data) ==
  << KeyDeploymentEnvironmentName, data.deployment_environment_name,
     KeyServiceInstanceId, data.service_instance_id,
     KeyServiceName, data.service_name,
     KeyServiceVersion, data.service_version,
     KeyTelemetrySdkLanguage, data.telemetry_sdk_language,
     KeyTelemetrySdkVersion, data.telemetry_sdk_version,
     KeyTelemetrySdkName, data.telemetry_sdk_name >>

\* otel_process_ctx_encode_protobuf_payload: calloc_ok is the outcome of calloc.
\* bytes is what the write loops emit, size the uint32_t stored in *out_size
\* (the cast changes nothing below 2^32, and no input here comes near it).
otel_process_ctx_encode_protobuf_payload(data, calloc_ok) ==
  LET pairs == identity_pairs(data)
      v1 == validate_and_calculate_protobuf_payload_size(pairs)
      v2 == IF data.resources # NULL
            THEN validate_and_calculate_protobuf_payload_size(data.resources)
            ELSE [success |-> TRUE, error_message |-> "NULL", size |-> 0]
      total_size == v1.size + v2.size
      fail(msg) == [success |-> FALSE, error_message |-> msg, bytes |-> << >>, size |-> 0]
  IN IF ~v1.success THEN fail(v1.error_message)
     ELSE IF ~v2.success THEN fail(v2.error_message)
     ELSE IF ~calloc_ok THEN fail("Failed to allocate memory for payload")
     ELSE [ success |-> TRUE, error_message |-> "NULL",
            bytes |-> write_pairs(pairs, 0, num_entries(pairs) \div 2)
                        \o (IF data.resources # NULL
                            THEN write_pairs(data.resources, 0, num_entries(data.resources) \div 2)
                            ELSE << >>),
            size |-> total_size ]

\* ---------------------------------------------------------------- decoder
\* A pointer into the payload is a 1-based index; end_ptr is one past the end.

\* A C string held in a buffer ends at its first NUL (strdup, strcmp).
strdup(buffer) ==
  LET nul == {i \in 1..Len(buffer) : buffer[i] = 0}
  IN IF nul = {} THEN buffer
     ELSE SubSeq(buffer, 1, (CHOOSE i \in nul : \A j \in nul : i <= j) - 1)

\* Lines 448-465, from the second byte on.
read_protobuf_varint_second(buf, ptr, end_ptr, first_byte) ==
  IF ptr + 1 >= end_ptr THEN [ok |-> FALSE, ptr |-> ptr + 1, value |-> 0]
  ELSE [ok |-> ((first_byte % 128) + buf[ptr + 1] * 128) % 65536 <= UINT14_MAX,
        ptr |-> ptr + 2,
        value |-> ((first_byte % 128) + buf[ptr + 1] * 128) % 65536]

read_protobuf_varint(buf, ptr, end_ptr) ==
  IF ptr >= end_ptr THEN [ok |-> FALSE, ptr |-> ptr, value |-> 0]
  ELSE IF buf[ptr] < 128 THEN [ok |-> TRUE, ptr |-> ptr + 1, value |-> buf[ptr]]
  ELSE read_protobuf_varint_second(buf, ptr, end_ptr, buf[ptr])

\* Lines 470-476: the string of the length len that read_protobuf_varint returned.
read_protobuf_string_of(buf, end_ptr, len) ==
  IF ~len.ok \/ len.value >= KEY_VALUE_LIMIT + 1 \/ len.ptr + len.value > end_ptr
  THEN [ok |-> FALSE, ptr |-> len.ptr, buffer |-> << >>]
  ELSE [ok |-> TRUE, ptr |-> len.ptr + len.value,
        buffer |-> SubSeq(buf, len.ptr, len.ptr + len.value - 1)]

read_protobuf_string(buf, ptr, end_ptr) ==
  read_protobuf_string_of(buf, end_ptr, read_protobuf_varint(buf, ptr, end_ptr))

read_protobuf_tag(buf, ptr, end_ptr) ==
  IF ptr >= end_ptr THEN [ok |-> FALSE, ptr |-> ptr, field_number |-> 0]
  ELSE [ok |-> (buf[ptr] % 8) = 2, ptr |-> ptr + 1, field_number |-> buf[ptr] \div 8]

\* The inner loop "Parse KeyValue" (lines 516-535): st is [ok, ptr, key_buffer,
\* value_buffer, key_found, value_found]; one operator per read the loop makes.
RECURSIVE parse_keyvalue(_, _, _)
RECURSIVE parse_keyvalue_field(_, _, _, _)
RECURSIVE parse_keyvalue_key(_, _, _, _)
RECURSIVE parse_keyvalue_any(_, _, _, _)
RECURSIVE parse_keyvalue_any_field(_, _, _, _)
RECURSIVE parse_keyvalue_value(_, _, _, _)

parse_keyvalue(buf, kv_end, st) ==
  IF ~(st.ptr < kv_end) THEN [st EXCEPT !.ok = TRUE]
  ELSE parse_keyvalue_field(buf, kv_end, st, read_protobuf_tag(buf, st.ptr, kv_end))

\* t: the tag of a field of the KeyValue.
parse_keyvalue_field(buf, kv_end, st, t) ==
  IF ~t.ok THEN [st EXCEPT !.ok = FALSE]
  ELSE IF t.field_number = 1
  THEN parse_keyvalue_key(buf, kv_end, st, read_protobuf_string(buf, t.ptr, kv_end))
  ELSE IF t.field_number = 2
  THEN parse_keyvalue_any(buf, kv_end, st, read_protobuf_varint(buf, t.ptr, kv_end))
  ELSE parse_keyvalue(buf, kv_end, [st EXCEPT !.ptr = t.ptr])

\* k: the key string.
parse_keyvalue_key(buf, kv_end, st, k) ==
  IF ~k.ok THEN [st EXCEPT !.ok = FALSE]
  ELSE parse_keyvalue(buf, kv_end,
         [st EXCEPT !.ptr = k.ptr, !.key_buffer = k.buffer, !.key_found = TRUE])

\* any_len: the length of the AnyValue.
parse_keyvalue_any(buf, kv_end, st, any_len) ==
  IF ~any_len.ok THEN [st EXCEPT !.ok = FALSE]
  ELSE parse_keyvalue_any_field(buf, kv_end, st, read_protobuf_tag(buf, any_len.ptr, kv_end))

\* any_tag: the tag of the AnyValue's field.
parse_keyvalue_any_field(buf, kv_end, st, any_tag) ==
  IF ~any_tag.ok THEN [st EXCEPT !.ok = FALSE]
  ELSE IF any_tag.field_number = 1
  THEN parse_keyvalue_value(buf, kv_end, st, read_protobuf_string(buf, any_tag.ptr, kv_end))
  ELSE parse_keyvalue(buf, kv_end, [st EXCEPT !.ptr = any_tag.ptr])

\* v: the string_value.
parse_keyvalue_value(buf, kv_end, st, v) ==
  IF ~v.ok THEN [st EXCEPT !.ok = FALSE]
  ELSE parse_keyvalue(buf, kv_end,
         [st EXCEPT !.ptr = v.ptr, !.value_buffer = v.buffer, !.value_found = TRUE])

\* Index (1..7) of the identity field a key names, 0 for any other key.
identity_index(key) ==
  IF \E i \in 1..7 : IdentityKeys[i] = key
  THEN CHOOSE i \in 1..7 : IdentityKeys[i] = key
  ELSE 0

\* A decoder with no capacity check.
resources_never_full(resource_index) == FALSE

\* A capacity check that refuses the last pair the array has room for.
resources_full_early(resource_index) == resource_index + 2 >= resource_capacity - 1

resources_full(resource_index) == resource_index + 2 >= resource_capacity

\* The outer loop of otel_process_ctx_decode_payload (lines 505-561).  Its state
\* is [running, success, ptr, key_buffer, value_buffer, data, allocs]: running
\* until the loop condition fails or the body returns false; data is data_out
\* with its resources array held as the sequence of the entries stored so far;
\* allocs counts the calls of calloc and strdup the decoder has made.
decode_fail(st) == [st EXCEPT !.running = FALSE, !.success = FALSE]

\* What the n-th allocation of the decoder returns: NULL when it is the one
\* that fails (fail_at, 0 when none does).
allocation(result, n, fail_at) == IF n = fail_at THEN NULL ELSE result

\* Lines 552-560: key is what strdup(key_buffer) returned.
decode_record_store(st, kv, key, value) ==
  IF key = NULL \/ resources_full(Len(st.data.resources))
  THEN decode_fail(st)
  ELSE [st EXCEPT !.ptr = kv.ptr, !.key_buffer = kv.key_buffer, !.value_buffer = kv.value_buffer,
                  !.data.resources = st.data.resources \o << key, value >>]

\* Lines 540-560: value is what strdup(value_buffer) returned; strcmp compares
\* the key up to its terminator.  The pair goes to its identity field or, with a
\* copy of the key, to the resources.
decode_record_dispatch(st, kv, value, fail_at) ==
  IF value = NULL THEN decode_fail(st)
  ELSE IF identity_index(strdup(kv.key_buffer)) # 0
  THEN [st EXCEPT !.ptr = kv.ptr, !.key_buffer = kv.key_buffer, !.value_buffer = kv.value_buffer,
                  !.data[IdentityFields[identity_index(strdup(kv.key_buffer))]] = value]
  ELSE decode_record_store([st EXCEPT !.allocs = st.allocs + 1], kv,
                           allocation(strdup(kv.key_buffer), st.allocs + 1, fail_at), value)

\* kv: what the inner loop found.
decode_record_parsed(st, kv, fail_at) ==
  IF ~kv.ok \/ ~kv.key_found \/ ~kv.value_found THEN decode_fail(st)
  ELSE decode_record_dispatch([st EXCEPT !.allocs = st.allocs + 1], kv,
                              allocation(strdup(kv.value_buffer), st.allocs + 1, fail_at), fail_at)

\* kv_len: the length of the KeyValue.
decode_record_keyvalue(buf, end_ptr, st, kv_len, fail_at) ==
  IF ~kv_len.ok \/ kv_len.ptr + kv_len.value > end_ptr THEN decode_fail(st)
  ELSE decode_record_parsed(st,
         parse_keyvalue(buf, kv_len.ptr + kv_len.value,
           [ok |-> TRUE, ptr |-> kv_len.ptr, key_buffer |-> st.key_buffer,
            value_buffer |-> st.value_buffer, key_found |-> FALSE, value_found |-> FALSE]),
         fail_at)

\* t: the tag of the record.
decode_record(buf, end_ptr, st, t, fail_at) ==
  IF ~t.ok \/ t.field_number # 1 THEN decode_fail(st)
  ELSE decode_record_keyvalue(buf, end_ptr, st, read_protobuf_varint(buf, t.ptr, end_ptr), fail_at)

\* One test of the loop condition and, when it holds, one run of the body.
decode_iteration(buf, end_ptr, st, fail_at) ==
  IF ~st.running THEN st
  ELSE IF ~(st.ptr < end_ptr) THEN [st EXCEPT !.running = FALSE]
  ELSE decode_record(buf, end_ptr, st, read_protobuf_tag(buf, st.ptr, end_ptr), fail_at)

\* n iterations, computed by halving n.
RECURSIVE decode_iterations(_, _, _, _, _)
decode_iterations(buf, end_ptr, st, n, fail_at) ==
  IF n = 0 \/ ~st.running THEN st
  ELSE IF n = 1 THEN decode_iteration(buf, end_ptr, st, fail_at)
  ELSE decode_iterations(buf, end_ptr,
         decode_iterations(buf, end_ptr, st, n \div 2, fail_at), n - n \div 2, fail_at)

\* Lines 498-561: the resources array is the decoder's first allocation, and the
\* decoder returns false when calloc gives none.  The loop ends within
\* payload_size + 1 iterations: each record takes a byte or more.
decode_records(buf, end_ptr, data_out, fail_at) ==
  IF allocation(<< >>, 1, fail_at) = NULL
  THEN [running |-> FALSE, success |-> FALSE, ptr |-> 1, key_buffer |-> << >>,
        value_buffer |-> << >>, data |-> data_out, allocs |-> 1]
  ELSE decode_iterations(buf, end_ptr,
         [running |-> TRUE, success |-> TRUE, ptr |-> 1, key_buffer |-> << >>, value_buffer |-> << >>,
          data |-> [data_out EXCEPT !.resources = << >>], allocs |-> 1],
         end_ptr, fail_at)

\* The result of the loop, with the check of lines 564-570.
decode_result(st) ==
  [ success |-> st.success /\ \A i \in 1..7 : st.data[IdentityFields[i]] # NULL,
    data |-> st.data, allocs |-> st.allocs ]

\* fail_at: which of the decoder's allocations fails (1 the calloc of line 501,
\* 1 + n the n-th strdup), 0 when none does.
otel_process_ctx_decode_payload(payload, payload_size, fail_at) ==
  decode_result(decode_records(payload, payload_size + 1, empty_data, fail_at))

\* ------------------------------------------------------------ bounds, inputs

\* Clock readings are 1..MaxTime (0 is time_now_ns's failure value).  A run has at
\* most MaxFaults failing system calls and allocations.  A process has heap
\* addresses for MaxBufs payloads (the live one and the one an update
\* allocates) besides those that dangling pointers name, and addresses for
\* MaxFaults + 1 mappings in any order.
MaxTime == 2
MaxFaults == 1
MaxBufs == 2

ParentPid == 1
ChildPid == 2
Procs == {ParentPid, ChildPid}

Times == 1..MaxTime
\* Room for the chunks that stale headers (one for each failed munmap) or the
\* reader still name, so that calloc can always return one that nothing names.
Bufs == 1..(MaxBufs + MaxFaults)
\* Room for MaxFaults + 1 regions in any order of their addresses.
Addrs == 1..(2 ^ (MaxFaults + 1) - 1)

NULL_PTR == 0
MAP_FAILED == 0 - 1

Str(n, c) == [i \in 1..n |-> c]

base_data ==
  [ deployment_environment_name |-> <<112>>, service_instance_id |-> <<49, 50, 51>>,
    service_name |-> <<115, 118, 99>>, service_version |-> <<52, 46, 53>>,
    telemetry_sdk_language |-> <<99>>, telemetry_sdk_version |-> <<49, 46, 50>>,
    telemetry_sdk_name |-> <<101, 120>>, resources |-> NULL ]

\* The attribute objects handed to publish, by name.  "a" and "b" satisfy the
\* caps and encode to different sizes; the others cannot be encoded.
AttributesByName ==
  [ a |-> base_data,
    b |-> [base_data EXCEPT !.deployment_environment_name = <<115, 116, 103>>,
                            !.service_version = << >>,
                            !.resources = << <<107, 49>>, <<118, 49>>, <<107, 50>>, <<118, 50>> >>],
    nullvalue |-> [base_data EXCEPT !.service_version = NULL],
    nullresource |-> [base_data EXCEPT !.resources = << <<107, 49>>, <<118, 49>>, <<107, 50>> >>],
    longvalue |-> [base_data EXCEPT !.service_name = Str(KEY_VALUE_LIMIT + 1, 97)],
    longkey |-> [base_data EXCEPT !.resources = << Str(KEY_VALUE_LIMIT + 1, 107), <<118>> >>] ]

Attributes(d) == AttributesByName[d]

ValidInputs == {"a", "b"}
InvalidInputs == {"nullvalue", "nullresource", "longvalue", "longkey"}
\* "NULL" is publish(NULL).
Inputs == ValidInputs \cup InvalidInputs \cup {"NULL"}

\* What the encoder makes of each attribute object when calloc succeeds.
EncodedByName ==
  [ a |-> otel_process_ctx_encode_protobuf_payload(Attributes("a"), TRUE),
    b |-> otel_process_ctx_encode_protobuf_payload(Attributes("b"), TRUE),
    nullvalue |-> otel_process_ctx_encode_protobuf_payload(Attributes("nullvalue"), TRUE),
    nullresource |-> otel_process_ctx_encode_protobuf_payload(Attributes("nullresource"), TRUE),
    longvalue |-> otel_process_ctx_encode_protobuf_payload(Attributes("longvalue"), TRUE),
    longkey |-> otel_process_ctx_encode_protobuf_payload(Attributes("longkey"), TRUE) ]

\* The call of the encoder on the attributes named d: the failure of calloc is
\* met only by an input that passes validation.
encode(d, calloc_ok) ==
  IF calloc_ok \/ ~EncodedByName[d].success
  THEN EncodedByName[d]
  ELSE otel_process_ctx_encode_protobuf_payload(Attributes(d), FALSE)

\* ------------------------------------------------------------------ state

VARIABLES
  alive,            \* alive[p]: process p exists
  pc,               \* pc[p]: the statement process p's publisher thread is at
  lv,               \* lv[p]: the locals of the call in progress
  published_state,  \* published_state[p]: the singleton of process p
  maps,             \* maps[p][addr]: the address space of p, header regions only
  heap,             \* heap[p][buf]: the payload buffers of p's heap
  last,             \* last[p]: the call that returned last, and its result
  read_result,      \* read_result[p]: the otel_process_ctx_read_result the caller holds
  ub,               \* ub[p]: p has executed undefined behaviour (double free, wild store)
  faults,           \* the system calls and allocations that have failed so far
  leaked,           \* leaked[p]: the mappings of p whose munmap failed
  reader,           \* the out-of-process reader of the parent: its position and what it has read
  codec             \* an attribute object taken through the encoder and the decoder

vars ==
  << alive, pc, lv, published_state, maps, heap, last, read_result, ub, faults, leaked, reader, codec >>

zero_state == [publisher_pid |-> 0, mapping |-> NULL_PTR, payload |-> NULL_PTR]

zero_header ==
  [signature |-> "zero", version |-> 0, payload_size |-> 0, published_at_ns |-> 0, payload |-> NULL_PTR]

Unmapped == [mapped |-> FALSE]
\* A heap address not allocated now: never handed out, or freed (its content is gone).
Free == [status |-> "free"]

\* A fresh mapping of header size: zero-filled, inherited by fork until madvise.
\* memfd tells /memfd:OTEL_CTX mappings from private anonymous ones.
fresh_region(memfd) ==
  [mapped |-> TRUE, hdr |-> zero_header, memfd |-> memfd, anon_name |-> FALSE, dontfork |-> FALSE]

\* The locals of publish, update and drop_current.  ret is where drop_current
\* returns to, pending the header fields an assignment has still to store,
\* encoded the buffer of the encoder before it is stored through `out`, mmap_ret
\* what mmap returned before it is stored in the singleton, fd whether the memfd
\* is open.  The
\* rest records the call for the properties below: op and entry (the singleton
\* at the call: "unpublished", "published" by this process or "inherited"),
\* entry_faults and entry_hdr (failures so far and the header, at the call),
\* munmap_called (drop_current has made its munmap call), and after (the call
\* of the library that returned before this one, "none" at the first).
no_locals ==
  [ data |-> "NULL", published_at_ns |-> 0, payload_size |-> 0, payload |-> NULL_PTR,
    state |-> zero_state, success |-> TRUE, ret |-> "none", pending |-> {},
    encoded |-> NULL_PTR, mmap_ret |-> NULL_PTR, fd |-> FALSE,
    op |-> "none", entry |-> "none", entry_faults |-> 0, entry_hdr |-> zero_header,
    munmap_called |-> FALSE, after |-> "none" ]

NoCall == [op |-> "none"]
ReaderIdle == [pc |-> "idle"]
NoCodec == [phase |-> "none"]
NoRead == [held |-> FALSE]

Init ==
  /\ alive = [p \in Procs |-> p = ParentPid]
  /\ pc = [p \in Procs |-> "idle"]
  /\ lv = [p \in Procs |-> no_locals]
  /\ published_state = [p \in Procs |-> zero_state]
  /\ maps = [p \in Procs |-> [a \in Addrs |-> Unmapped]]
  /\ heap = [p \in Procs |-> [b \in Bufs |-> Free]]
  /\ last = [p \in Procs |-> NoCall]
  /\ read_result = [p \in Procs |-> NoRead]
  /\ ub = [p \in Procs |-> FALSE]
  /\ faults = 0
  /\ leaked = [p \in Procs |-> {}]
  /\ reader = ReaderIdle
  /\ codec = NoCodec

\* ---------------------------------------------------------------- helpers

getpid(p) == p

\* ctx_is_published without the comparison of pids.
ctx_is_published_any_pid(state, p) ==
  state.mapping # NULL_PTR /\ state.mapping # MAP_FAILED

ctx_is_published(state, p) ==
  state.mapping # NULL_PTR /\ state.mapping # MAP_FAILED /\ getpid(p) = state.publisher_pid

\* Between two calls, the last read result given back; after undefined behaviour
\* a process is not followed further.
Idle(p) == alive[p] /\ ~ub[p] /\ pc[p] = "idle" /\ read_result[p] = NoRead

is_mapped(p, addr) == addr \in Addrs /\ maps[p][addr].mapped

\* The lowest of a set of addresses; 0 when there is none.
lowest(S) == IF S = {} THEN 0 ELSE CHOOSE x \in S : \A y \in S : x <= y

\* The one of a set of addresses with as many of them below it as above.
middle(S) == CHOOSE x \in S : Cardinality({y \in S : y < x}) = (Cardinality(S) - 1) \div 2

\* The addresses some pointer of p holds, or the reader of the parent has still
\* to read from.
held_mappings(p) ==
  {published_state[p].mapping, lv[p].state.mapping, lv[p].mmap_ret}
    \cup (IF p = ParentPid /\ reader.pc \notin {"idle", "done"} THEN {reader.addr} ELSE {})

held_payloads(p) ==
  {published_state[p].payload, lv[p].payload, lv[p].encoded, lv[p].state.payload,
   lv[p].entry_hdr.payload}
    \cup {maps[p][a].hdr.payload : a \in {x \in Addrs : maps[p][x].mapped}}
    \cup (IF p = ParentPid /\ reader.pc = "bytes" THEN {reader.payload} ELSE {})

\* The addresses not mapped that lie with a in one gap between mapped regions.
gap(p, a) ==
  {b \in Addrs : \A c \in Addrs : ((a <= c /\ c <= b) \/ (b <= c /\ c <= a)) => ~maps[p][c].mapped}

\* What mmap(NULL, ...) can return: MAP_FAILED when the call fails, else an
\* address not mapped, which the kernel places where it likes, above or below
\* the regions there are.  Of the addresses that nothing tells apart (those of
\* one gap that no pointer holds) one stands for all, the middle one.
mmap_returns(p, mmap_ok) ==
  IF mmap_ok /\ (\E a \in Addrs : ~maps[p][a].mapped)
  THEN {a \in Addrs : /\ ~maps[p][a].mapped
                      /\ \/ a \in held_mappings(p)
                         \/ a = middle(gap(p, a) \ held_mappings(p))}
  ELSE {MAP_FAILED}

\* What calloc can return: NULL when the call fails, else an address not
\* allocated, the chunk just freed or another.  Of the addresses that nothing
\* tells apart (those no pointer holds) one stands for all, the lowest.
calloc_returns(p, calloc_ok) ==
  IF calloc_ok /\ (\E b \in Bufs : heap[p][b].status # "alloc")
  THEN {b \in Bufs : /\ heap[p][b].status # "alloc"
                     /\ \/ b \in held_payloads(p)
                        \/ b = lowest({x \in Bufs : heap[p][x].status # "alloc" /\ x \notin held_payloads(p)})}
  ELSE {NULL_PTR}

\* A free that releases nothing.
free_nothing(h, ptr) == h

\* free(ptr) on the heap h: free(NULL) does nothing; freeing a buffer that is not
\* allocated is undefined.
free(h, ptr) ==
  IF ptr \in Bufs /\ h[ptr].status = "alloc" THEN [h EXCEPT ![ptr] = Free] ELSE h

free_is_undefined(h, ptr) == ptr # NULL_PTR /\ ~(ptr \in Bufs /\ h[ptr].status = "alloc")

\* The bytes a payload buffer holds: the encoding of the attributes written to it.
buffer_bytes(cell) == EncodedByName[cell.data].bytes

\* A store through published_state.mapping; a store to an unmapped address faults.
store_ok(p) == is_mapped(p, published_state[p].mapping)

store(p, field, value) ==
  IF store_ok(p)
  THEN [maps EXCEPT ![p][published_state[p].mapping].hdr[field] = value]
  ELSE maps

\* n of the calls this step makes fail.
Fault(n) == faults + n <= MaxFaults /\ faults' = faults + n

failed(ok) == IF ok THEN 0 ELSE 1

\* How the singleton of p stands: published by p, left by the parent, or unset.
entry_kind(p) ==
  IF ctx_is_published(published_state[p], p) THEN "published"
  ELSE IF published_state[p] = zero_state THEN "unpublished"
  ELSE "inherited"

\* The header the singleton of p points at, all zero when it points at none.
current_header(p) ==
  IF is_mapped(p, published_state[p].mapping) THEN maps[p][published_state[p].mapping].hdr ELSE zero_header

\* The locals of a call of op(d) that reads the clock as t.
call_locals(p, op, d, t) ==
  [no_locals EXCEPT !.op = op, !.data = d, !.published_at_ns = t, !.entry = entry_kind(p),
                    !.entry_faults = faults, !.entry_hdr = current_header(p),
                    !.after = last[p].op]

\* A call of p returns: back to the caller, the locals are gone.  last[p] keeps
\* the call, its result and how many system calls and allocations failed in it,
\* n of them at the step that returns.
returned(locals, result, n) ==
  [ op |-> locals.op, data |-> locals.data, published_at_ns |-> locals.published_at_ns,
    entry |-> locals.entry,
    failures |-> faults + n - locals.entry_faults, result |-> result ]

ReturnFrom(p, locals, result, n) ==
  /\ pc' = [pc EXCEPT ![p] = "idle"]
  /\ lv' = [lv EXCEPT ![p] = no_locals]
  /\ last' = [last EXCEPT ![p] = returned(locals, result, n)]

Return(p, result) == ReturnFrom(p, lv[p], result, 0)

\* p goes on to `label` within its call; last[p] tells of no call while one runs.
Goto(p, label, locals) ==
  /\ pc' = [pc EXCEPT ![p] = label]
  /\ lv' = [lv EXCEPT ![p] = locals]
  /\ last' = [last EXCEPT ![p] = NoCall]

\* ------------------------------------------------------------ drop_current

\* otel_process_ctx_drop_current is entered from the application (ret "caller") and
\* from publish (ret names where publish goes on).
enter_drop(p, ret) ==
  Goto(p, "drop_zero", [lv[p] EXCEPT !.ret = ret])

otel_process_ctx_drop_current(p) ==
  /\ Idle(p)
  /\ Goto(p, "drop_zero", [call_locals(p, "drop_current", "NULL", 0) EXCEPT !.ret = "caller"])
  /\ UNCHANGED << alive, published_state, maps, heap, read_result, ub, faults, leaked, reader, codec >>

\* drop_current that snapshots the singleton and leaves it set.
drop_zero_keeping(p) ==
  /\ alive[p] /\ ~ub[p] /\ pc[p] = "drop_zero"
  /\ Goto(p, "drop_unmap", [lv[p] EXCEPT !.state = published_state[p]])
  /\ UNCHANGED << alive, published_state, maps, heap, read_result, ub, faults, leaked, reader, codec >>

\* drop_current that clears the pid and the payload of the singleton and leaves
\* its mapping field set.
drop_zero_mapping_kept(p) ==
  /\ alive[p] /\ ~ub[p] /\ pc[p] = "drop_zero"
  /\ published_state' = [published_state EXCEPT ![p] = [zero_state EXCEPT !.mapping = published_state[p].mapping]]
  /\ Goto(p, "drop_unmap", [lv[p] EXCEPT !.state = published_state[p]])
  /\ UNCHANGED << alive, maps, heap, read_result, ub, faults, leaked, reader, codec >>

\* Lines 220-224: snapshot the singleton, zero it, fence.
drop_zero(p) ==
  /\ alive[p] /\ ~ub[p] /\ pc[p] = "drop_zero"
  /\ published_state' = [published_state EXCEPT ![p] = zero_state]
  /\ Goto(p, "drop_unmap", [lv[p] EXCEPT !.state = published_state[p]])
  /\ UNCHANGED << alive, maps, heap, read_result, ub, faults, leaked, reader, codec >>

\* drop_current without its munmap call.
drop_unmap_skipped(p, munmap_ok) ==
  /\ alive[p] /\ ~ub[p] /\ pc[p] = "drop_unmap"
  /\ munmap_ok
  /\ Goto(p, "drop_free", lv[p])
  /\ UNCHANGED << alive, published_state, maps, heap, read_result, ub, faults, leaked, reader, codec >>

\* drop_current that calls munmap whatever the snapshot holds.
drop_unmap_unguarded(p, munmap_ok) ==
  /\ alive[p] /\ ~ub[p] /\ pc[p] = "drop_unmap"
  /\ LET state == lv[p].state
     IN /\ maps' = IF munmap_ok /\ is_mapped(p, state.mapping)
                   THEN [maps EXCEPT ![p][state.mapping] = Unmapped]
                   ELSE maps
        /\ leaked' = IF ~munmap_ok /\ is_mapped(p, state.mapping)
                     THEN [leaked EXCEPT ![p] = leaked[p] \cup {state.mapping}] ELSE leaked
        /\ Goto(p, "drop_free", [lv[p] EXCEPT !.success = munmap_ok, !.munmap_called = TRUE])
        /\ Fault(failed(munmap_ok))
  /\ UNCHANGED << alive, published_state, heap, read_result, ub, reader, codec >>

\* Lines 226-232: munmap only a mapping this process published.  munmap of a
\* range with no mapping in it succeeds and changes nothing.
drop_unmap(p, munmap_ok) ==
  /\ alive[p] /\ ~ub[p] /\ pc[p] = "drop_unmap"
  /\ LET state == lv[p].state
         does == ctx_is_published(state, p)
     IN /\ maps' = IF does /\ munmap_ok /\ is_mapped(p, state.mapping)
                   THEN [maps EXCEPT ![p][state.mapping] = Unmapped]
                   ELSE maps
        /\ leaked' = IF does /\ ~munmap_ok THEN [leaked EXCEPT ![p] = leaked[p] \cup {state.mapping}] ELSE leaked
        /\ Goto(p, "drop_free", [lv[p] EXCEPT !.success = (~does \/ munmap_ok),
                                               !.munmap_called = lv[p].munmap_called \/ does])
        /\ does \/ munmap_ok
        /\ Fault(failed(munmap_ok))
  /\ UNCHANGED << alive, published_state, heap, read_result, ub, reader, codec >>

\* What publish does once the drop_current it called has returned.
after_drop(p, ret, success) ==
  CASE ret = "caller" -> Return(p, [success |-> success])
    [] ret = "publish_encode" ->
         IF success THEN Goto(p, "publish_encode", [lv[p] EXCEPT !.state = zero_state, !.ret = "none"])
         ELSE Return(p, err_result("Failed to drop previous context"))
    [] ret = "fail_truncate" -> Return(p, err_result("Failed to truncate memfd"))
    [] ret = "fail_close" -> Return(p, err_result("Failed to close memfd"))
    [] ret = "fail_map" -> Return(p, err_result("Failed to allocate mapping"))
    [] ret = "fail_madvise" ->
         IF success THEN Return(p, err_result("Failed to setup MADV_DONTFORK"))
         ELSE Return(p, err_result("Failed to drop context"))

\* drop_current that frees the payload only when munmap did not fail.
drop_free_on_success(p) ==
  /\ alive[p] /\ ~ub[p] /\ pc[p] = "drop_free"
  /\ heap' = IF lv[p].success THEN [heap EXCEPT ![p] = free(heap[p], lv[p].state.payload)] ELSE heap
  /\ ub' = [ub EXCEPT ![p] = ub[p] \/ (lv[p].success /\ free_is_undefined(heap[p], lv[p].state.payload))]
  /\ after_drop(p, lv[p].ret, lv[p].success)
  /\ UNCHANGED << alive, published_state, maps, read_result, faults, leaked, reader, codec >>

\* Lines 234-237: free the snapshot's payload, return success.
drop_free(p) ==
  /\ alive[p] /\ ~ub[p] /\ pc[p] = "drop_free"
  /\ heap' = [heap EXCEPT ![p] = free(heap[p], lv[p].state.payload)]
  /\ ub' = [ub EXCEPT ![p] = ub[p] \/ free_is_undefined(heap[p], lv[p].state.payload)]
  /\ after_drop(p, lv[p].ret, lv[p].success)
  /\ UNCHANGED << alive, published_state, maps, read_result, faults, leaked, reader, codec >>

\* ----------------------------------------------------------------- publish

\* publish that never updates in place: it drops what there is and creates anew.
otel_process_ctx_publish_recreating(p, d, t) ==
  /\ Idle(p)
  /\ d = "NULL" => t = 1
  /\ Fault(failed(t # 0))
  /\ LET locals == call_locals(p, "publish", d, IF d = "NULL" THEN 0 ELSE t)
     IN IF d = "NULL" THEN ReturnFrom(p, locals, err_result("otel_process_ctx_data is NULL"), 0)
        ELSE IF t = 0 THEN ReturnFrom(p, locals, err_result("Failed to get current time"), 1)
        ELSE Goto(p, "drop_zero", [locals EXCEPT !.ret = "publish_encode"])
  /\ UNCHANGED << alive, published_state, maps, heap, read_result, ub, leaked, reader, codec >>

\* publish that goes on with the timestamp 0 of a failed clock read.
otel_process_ctx_publish_clock_unchecked(p, d, t) ==
  /\ Idle(p)
  /\ d = "NULL" => t = 1
  /\ Fault(failed(t # 0))
  /\ LET locals == call_locals(p, "publish", d, IF d = "NULL" THEN 0 ELSE t)
     IN IF d = "NULL" THEN ReturnFrom(p, locals, err_result("otel_process_ctx_data is NULL"), 0)
        ELSE IF ctx_is_published(published_state[p], p) THEN Goto(p, "update_encode", locals)
        ELSE Goto(p, "drop_zero", [locals EXCEPT !.ret = "publish_encode"])
  /\ UNCHANGED << alive, published_state, maps, heap, read_result, ub, leaked, reader, codec >>

\* Lines 120-135: t is what time_now_ns returned.
otel_process_ctx_publish(p, d, t) ==
  /\ Idle(p)
  /\ d = "NULL" => t = 1
  /\ Fault(failed(t # 0))
  /\ LET locals == call_locals(p, "publish", d, IF d = "NULL" THEN 0 ELSE t)
     IN IF d = "NULL" THEN ReturnFrom(p, locals, err_result("otel_process_ctx_data is NULL"), 0)
        ELSE IF t = 0 THEN ReturnFrom(p, locals, err_result("Failed to get current time"), 1)
        ELSE IF ctx_is_published(published_state[p], p) THEN Goto(p, "update_encode", locals)
        ELSE Goto(p, "drop_zero", [locals EXCEPT !.ret = "publish_encode"])
  /\ UNCHANGED << alive, published_state, maps, heap, read_result, ub, leaked, reader, codec >>

\* Whether encoding attributes d gets as far as calloc (line 392).
calloc_reached(d) ==
  d # "NULL" /\ EncodedByName[d].success

\* Lines 137-141 with the encoder up to line 405: validation, calloc (buf is
\* what it returns) and the writes into the buffer, which the encoder holds in
\* its local `encoded`.
publish_encode(p, calloc_ok, buf) ==
  /\ alive[p] /\ ~ub[p] /\ pc[p] = "publish_encode"
  /\ buf \in (IF calloc_reached(lv[p].data) THEN calloc_returns(p, calloc_ok) ELSE {NULL_PTR})
  /\ LET e == encode(lv[p].data, buf # NULL_PTR)
     IN IF e.success
        THEN /\ heap' = [heap EXCEPT ![p][buf] = [status |-> "alloc", data |-> lv[p].data, size |-> e.size]]
             /\ Goto(p, "publish_encode_out", [lv[p] EXCEPT !.payload_size = e.size, !.encoded = buf])
        ELSE /\ heap' = heap
             /\ ReturnFrom(p, lv[p], err_result(e.error_message), failed(calloc_ok))
  /\ calloc_reached(lv[p].data) \/ calloc_ok
  /\ Fault(failed(calloc_ok))
  /\ UNCHANGED << alive, published_state, maps, read_result, ub, leaked, reader, codec >>

\* Lines 406-409 of the encoder, called with out = &published_state.payload.
publish_encode_out(p) ==
  /\ alive[p] /\ ~ub[p] /\ pc[p] = "publish_encode_out"
  /\ published_state' = [published_state EXCEPT ![p].payload = lv[p].encoded]
  /\ Goto(p, "publish_pid", [lv[p] EXCEPT !.encoded = NULL_PTR])
  /\ UNCHANGED << alive, maps, heap, read_result, ub, faults, leaked, reader, codec >>

\* Line 145.
publish_pid(p) ==
  /\ alive[p] /\ ~ub[p] /\ pc[p] = "publish_pid"
  /\ published_state' = [published_state EXCEPT ![p].publisher_pid = getpid(p)]
  /\ Goto(p, "publish_map", lv[p])
  /\ UNCHANGED << alive, maps, heap, read_result, ub, faults, leaked, reader, codec >>

\* Lines 146-158, up to the return of mmap: memfd_create, ftruncate and mmap on
\* the memfd, or the anonymous fallback, each with its outcome (a call that is
\* not made has outcome TRUE); mapping is what mmap returns.  The descriptor is
\* left open when ftruncate fails.
publish_map(p, memfd_ok, ftruncate_ok, mmap_ok, mapping) ==
  /\ alive[p] /\ ~ub[p] /\ pc[p] = "publish_map"
  /\ mapping \in (IF memfd_ok /\ ~ftruncate_ok THEN {NULL_PTR} ELSE mmap_returns(p, mmap_ok))
  /\ memfd_ok \/ ftruncate_ok
  /\ ftruncate_ok \/ mmap_ok
  /\ Fault(failed(memfd_ok) + failed(ftruncate_ok) + failed(mmap_ok))
  /\ IF memfd_ok /\ ~ftruncate_ok
     THEN /\ maps' = maps
          /\ enter_drop(p, "fail_truncate")
     ELSE /\ maps' = IF mapping = MAP_FAILED THEN maps
                     ELSE [maps EXCEPT ![p][mapping] = fresh_region(memfd_ok)]
          /\ Goto(p, "publish_map_store", [lv[p] EXCEPT !.mmap_ret = mapping, !.fd = memfd_ok])
  /\ UNCHANGED << alive, published_state, heap, read_result, ub, leaked, reader, codec >>

\* Lines 154-168, from the store of what mmap returned: the store, close on the
\* memfd path, and the call of drop_current on failure.
publish_map_store(p, close_ok) ==
  /\ alive[p] /\ ~ub[p] /\ pc[p] = "publish_map_store"
  /\ lv[p].fd \/ close_ok
  /\ Fault(failed(close_ok))
  /\ published_state' = [published_state EXCEPT ![p].mapping = lv[p].mmap_ret]
  /\ LET failed_to_close_fd == lv[p].fd /\ ~close_ok
         locals == [lv[p] EXCEPT !.mmap_ret = NULL_PTR, !.fd = FALSE]
     IN IF lv[p].mmap_ret = MAP_FAILED \/ failed_to_close_fd
        THEN Goto(p, "drop_zero",
                  [locals EXCEPT !.ret = IF failed_to_close_fd THEN "fail_close" ELSE "fail_map"])
        ELSE Goto(p, "publish_madvise", locals)
  /\ UNCHANGED << alive, maps, heap, read_result, ub, leaked, reader, codec >>

\* publish that writes the signature as soon as the mapping is set up.
publish_madvise_signing(p, madvise_ok) ==
  /\ alive[p] /\ ~ub[p] /\ pc[p] = "publish_madvise"
  /\ IF madvise_ok
     THEN /\ maps' = [maps EXCEPT ![p][published_state[p].mapping].dontfork = TRUE,
                                  ![p][published_state[p].mapping].hdr.signature = "OTEL_CTX"]
          /\ Goto(p, "publish_populate",
                  [lv[p] EXCEPT !.pending = {"version", "payload_size", "published_at_ns", "payload"}])
     ELSE /\ maps' = maps
          /\ enter_drop(p, "fail_madvise")
  /\ Fault(failed(madvise_ok))
  /\ UNCHANGED << alive, published_state, heap, read_result, ub, leaked, reader, codec >>

\* Lines 170-178.
publish_madvise(p, madvise_ok) ==
  /\ alive[p] /\ ~ub[p] /\ pc[p] = "publish_madvise"
  /\ IF madvise_ok
     THEN /\ maps' = [maps EXCEPT ![p][published_state[p].mapping].dontfork = TRUE]
          /\ Goto(p, "publish_populate",
                  [lv[p] EXCEPT !.pending = {"version", "payload_size", "published_at_ns", "payload"}])
     ELSE /\ maps' = maps
          /\ enter_drop(p, "fail_madvise")
  /\ Fault(failed(madvise_ok))
  /\ UNCHANGED << alive, published_state, heap, read_result, ub, leaked, reader, codec >>

\* The value line 182's compound literal gives a header field.
populate_value(p, field) ==
  CASE field = "version" -> 2
    [] field = "payload_size" -> lv[p].payload_size
    [] field = "published_at_ns" -> lv[p].published_at_ns
    [] field = "payload" -> published_state[p].payload

\* Lines 180-193: the struct assignment is a store per field, in an order the
\* compiler picks; the signature's {0} rewrites the zeros of the fresh mapping.
publish_populate(p, field) ==
  /\ alive[p] /\ ~ub[p] /\ pc[p] = "publish_populate"
  /\ field \in lv[p].pending
  /\ maps' = store(p, field, populate_value(p, field))
  /\ ub' = [ub EXCEPT ![p] = ub[p] \/ ~store_ok(p)]
  /\ Goto(p, IF lv[p].pending = {field} THEN "publish_signature" ELSE "publish_populate",
          [lv[p] EXCEPT !.pending = lv[p].pending \ {field}])
  /\ UNCHANGED << alive, published_state, heap, read_result, faults, leaked, reader, codec >>

\* Lines 195-198: the 8 signature bytes, after the fence.
publish_signature(p) ==
  /\ alive[p] /\ ~ub[p] /\ pc[p] = "publish_signature"
  /\ maps' = store(p, "signature", "OTEL_CTX")
  /\ ub' = [ub EXCEPT ![p] = ub[p] \/ ~store_ok(p)]
  /\ Goto(p, "publish_prctl", lv[p])
  /\ UNCHANGED << alive, published_state, heap, read_result, faults, leaked, reader, codec >>

\* prctl(PR_SET_VMA, PR_SET_VMA_ANON_NAME, ...): names an anonymous mapping when
\* the kernel supports it; a mapping of a file (the memfd) cannot be named.
name_mapping(p, prctl_ok) ==
  LET addr == published_state[p].mapping
  IN IF prctl_ok /\ is_mapped(p, addr) /\ ~maps[p][addr].memfd
     THEN [maps EXCEPT ![p][addr].anon_name = TRUE]
     ELSE maps

\* publish that reports the failure of prctl.
publish_prctl_checked(p, prctl_ok) ==
  /\ alive[p] /\ ~ub[p] /\ pc[p] = "publish_prctl"
  /\ maps' = name_mapping(p, prctl_ok)
  /\ IF prctl_ok THEN Return(p, ok_result) ELSE Return(p, err_result("Failed to name mapping"))
  /\ UNCHANGED << alive, published_state, heap, read_result, ub, faults, leaked, reader, codec >>

\* Lines 200-216: the result of prctl is not looked at.
publish_prctl(p, prctl_ok) ==
  /\ alive[p] /\ ~ub[p] /\ pc[p] = "publish_prctl"
  /\ maps' = name_mapping(p, prctl_ok)
  /\ Return(p, ok_result)
  /\ UNCHANGED << alive, published_state, heap, read_result, ub, faults, leaked, reader, codec >>

\* ------------------------------------------------------------------ update

\* Lines 240-250: the new payload goes to the local `payload`; the check of line
\* 241 cannot fail on the one call there is (publish, line 129).
update_encode(p, calloc_ok, buf) ==
  /\ alive[p] /\ ~ub[p] /\ pc[p] = "update_encode"
  /\ buf \in (IF calloc_reached(lv[p].data) /\ ctx_is_published(published_state[p], p)
              THEN calloc_returns(p, calloc_ok) ELSE {NULL_PTR})
  /\ LET e == encode(lv[p].data, buf # NULL_PTR)
     IN IF lv[p].data = "NULL" \/ ~ctx_is_published(published_state[p], p)
        THEN /\ heap' = heap
             /\ Return(p, err_result("Unexpected: otel_process_ctx_data is NULL or context is not published"))
        ELSE IF e.success
        THEN /\ heap' = [heap EXCEPT ![p][buf] = [status |-> "alloc", data |-> lv[p].data, size |-> e.size]]
             /\ Goto(p, "update_zero", [lv[p] EXCEPT !.payload_size = e.size, !.payload = buf])
        ELSE /\ heap' = heap
             /\ ReturnFrom(p, lv[p], err_result(e.error_message), failed(calloc_ok))
  /\ calloc_reached(lv[p].data) \/ calloc_ok
  /\ Fault(failed(calloc_ok))
  /\ UNCHANGED << alive, published_state, maps, read_result, ub, leaked, reader, codec >>

\* update that does not zero the timestamp before it installs the payload.
update_zero_skipped(p) ==
  /\ alive[p] /\ ~ub[p] /\ pc[p] = "update_zero"
  /\ Goto(p, "update_install", [lv[p] EXCEPT !.pending = {"payload_size", "payload"}])
  /\ UNCHANGED << alive, published_state, maps, heap, read_result, ub, faults, leaked, reader, codec >>

\* Lines 252-257.
update_zero(p) ==
  /\ alive[p] /\ ~ub[p] /\ pc[p] = "update_zero"
  /\ maps' = store(p, "published_at_ns", 0)
  /\ ub' = [ub EXCEPT ![p] = ub[p] \/ ~store_ok(p)]
  /\ Goto(p, "update_install", [lv[p] EXCEPT !.pending = {"payload_size", "payload"}])
  /\ UNCHANGED << alive, published_state, heap, read_result, faults, leaked, reader, codec >>

\* update that installs the new pointer and leaves the old length.
update_install_pointer_only(p, field) ==
  /\ alive[p] /\ ~ub[p] /\ pc[p] = "update_install"
  /\ field \in lv[p].pending
  /\ maps' = IF field = "payload" THEN store(p, field, lv[p].payload) ELSE maps
  /\ ub' = [ub EXCEPT ![p] = ub[p] \/ ~store_ok(p)]
  /\ Goto(p, IF lv[p].pending = {field} THEN "update_timestamp" ELSE "update_install",
          [lv[p] EXCEPT !.pending = lv[p].pending \ {field}])
  /\ UNCHANGED << alive, published_state, heap, read_result, faults, leaked, reader, codec >>

\* Lines 259-264: two stores with no fence between them.
update_install(p, field) ==
  /\ alive[p] /\ ~ub[p] /\ pc[p] = "update_install"
  /\ field \in lv[p].pending
  /\ maps' = store(p, field, IF field = "payload" THEN lv[p].payload ELSE lv[p].payload_size)
  /\ ub' = [ub EXCEPT ![p] = ub[p] \/ ~store_ok(p)]
  /\ Goto(p, IF lv[p].pending = {field} THEN "update_timestamp" ELSE "update_install",
          [lv[p] EXCEPT !.pending = lv[p].pending \ {field}])
  /\ UNCHANGED << alive, published_state, heap, read_result, faults, leaked, reader, codec >>

\* update that frees the old payload before the new timestamp is stored.
update_timestamp_after_free(p) ==
  /\ alive[p] /\ ~ub[p] /\ pc[p] = "update_timestamp"
  /\ heap' = [heap EXCEPT ![p] = free(heap[p], published_state[p].payload)]
  /\ published_state' = [published_state EXCEPT ![p].payload = NULL_PTR]
  /\ maps' = store(p, "published_at_ns", lv[p].published_at_ns)
  /\ ub' = [ub EXCEPT ![p] = ub[p] \/ ~store_ok(p)]
  /\ Goto(p, "update_prctl", lv[p])
  /\ UNCHANGED << alive, read_result, faults, leaked, reader, codec >>

\* update that goes on without storing the new timestamp.
update_timestamp_skipped(p) ==
  /\ alive[p] /\ ~ub[p] /\ pc[p] = "update_timestamp"
  /\ Goto(p, "update_prctl", lv[p])
  /\ UNCHANGED << alive, published_state, maps, heap, read_result, ub, faults, leaked, reader, codec >>

\* Lines 266-268.
update_timestamp(p) ==
  /\ alive[p] /\ ~ub[p] /\ pc[p] = "update_timestamp"
  /\ maps' = store(p, "published_at_ns", lv[p].published_at_ns)
  /\ ub' = [ub EXCEPT ![p] = ub[p] \/ ~store_ok(p)]
  /\ Goto(p, "update_prctl", lv[p])
  /\ UNCHANGED << alive, published_state, heap, read_result, faults, leaked, reader, codec >>

\* Lines 270-273.
update_prctl(p, prctl_ok) ==
  /\ alive[p] /\ ~ub[p] /\ pc[p] = "update_prctl"
  /\ maps' = name_mapping(p, prctl_ok)
  /\ Goto(p, "update_free", lv[p])
  /\ UNCHANGED << alive, published_state, heap, read_result, ub, faults, leaked, reader, codec >>

\* update that does not free the old payload.
update_free_skipped(p) ==
  /\ alive[p] /\ ~ub[p] /\ pc[p] = "update_free"
  /\ Goto(p, "update_bookkeeping", lv[p])
  /\ UNCHANGED << alive, published_state, maps, heap, read_result, ub, faults, leaked, reader, codec >>

\* Line 276.
update_free(p) ==
  /\ alive[p] /\ ~ub[p] /\ pc[p] = "update_free"
  /\ heap' = [heap EXCEPT ![p] = free(heap[p], published_state[p].payload)]
  /\ ub' = [ub EXCEPT ![p] = ub[p] \/ free_is_undefined(heap[p], published_state[p].payload)]
  /\ Goto(p, "update_bookkeeping", lv[p])
  /\ UNCHANGED << alive, published_state, maps, read_result, faults, leaked, reader, codec >>

\* Lines 277-281.
update_bookkeeping(p) ==
  /\ alive[p] /\ ~ub[p] /\ pc[p] = "update_bookkeeping"
  /\ published_state' = [published_state EXCEPT ![p].payload = lv[p].payload]
  /\ Return(p, ok_result)
  /\ UNCHANGED << alive, maps, heap, read_result, ub, faults, leaked, reader, codec >>

\* -------------------------------------------------------- in-process reader

\* A line of /proc/self/maps the reader takes for the context: a mapping of the
\* memfd shows as /memfd:OTEL_CTX; [anon_shmem:OTEL_CTX] is a named shared
\* anonymous mapping, which publish never creates (its fallback is MAP_PRIVATE,
\* shown as [anon:OTEL_CTX] once named).
is_process_ctx(region) == region.mapped /\ region.memfd

\* try_finding_mapping: the first matching line; the file is in address order.
try_finding_mapping(p) == lowest({a \in Addrs : is_process_ctx(maps[p][a])})

\* Reading the payload is defined when the header's pointer is an allocated
\* buffer that holds at least payload_size bytes.
read_is_defined(p, hdr) ==
  /\ hdr.payload \in Bufs
  /\ heap[p][hdr.payload].status = "alloc"
  /\ hdr.payload_size <= heap[p][hdr.payload].size

\* The read gets as far as calloc (line 602).
read_reaches_calloc(p) ==
  LET mapping == try_finding_mapping(p)
  IN /\ mapping # 0
     /\ maps[p][mapping].hdr.signature = "OTEL_CTX" /\ maps[p][mapping].hdr.version = 2

read_is_undefined(p) ==
  read_reaches_calloc(p) /\ ~read_is_defined(p, maps[p][try_finding_mapping(p)].hdr)

\* Line 608: what the decoder returns on the payload the header points at.
\* fail_at: the allocation of the decoder that fails, 0 for none.  garbage: what
\* decoding finds where the read is undefined, "fail" or the name of the
\* attributes it happens to parse as.
read_decoded(p, fail_at, garbage) ==
  LET hdr == maps[p][try_finding_mapping(p)].hdr
  IN IF read_is_defined(p, hdr)
     THEN otel_process_ctx_decode_payload(buffer_bytes(heap[p][hdr.payload]), hdr.payload_size, fail_at)
     ELSE IF garbage = "fail" THEN [success |-> FALSE, data |-> empty_data, allocs |-> 0]
     ELSE otel_process_ctx_decode_payload(buffer_bytes([data |-> garbage]),
                                          Len(buffer_bytes([data |-> garbage])), fail_at)

\* otel_process_ctx_read, lines 589-619.  calloc_ok: the two decode buffers were
\* allocated.  decoded: what the decoder returned.  The result has two fields of
\* the caller's besides: data_freed (the strings of data have been freed) and
\* drop_returned (what otel_process_ctx_read_drop returned last, "none" before
\* its first call).
read_result_of(p, calloc_ok, decoded) ==
  LET mapping == try_finding_mapping(p)
      hdr == maps[p][mapping].hdr
      fail(msg) == [held |-> TRUE, success |-> FALSE, error_message |-> msg, data |-> empty_data,
                    data_freed |-> FALSE, drop_returned |-> "none"]
  IN IF mapping = 0 THEN fail("No OTEL_CTX mapping found")
     ELSE IF hdr.signature # "OTEL_CTX" \/ hdr.version # 2
     THEN fail("Invalid OTEL_CTX signature or version")
     ELSE IF ~calloc_ok THEN fail("Failed to allocate decode buffers")
     ELSE IF decoded.success
     THEN [held |-> TRUE, success |-> TRUE, error_message |-> "NULL", data |-> decoded.data,
           data_freed |-> FALSE, drop_returned |-> "none"]
     ELSE fail("Failed to decode payload")

read_outcome(p, calloc_ok, fail_at, garbage) ==
  read_result_of(p, calloc_ok, read_decoded(p, fail_at, garbage))

\* An allocation that fails is one the call makes: the decode buffers when the
\* read gets to them, the decoder's allocation number fail_at when it gets that
\* far.  The garbage of an undefined read is modelled with no failure besides.
otel_process_ctx_read(p, calloc_ok, fail_at, garbage) ==
  /\ Idle(p)
  /\ read_reaches_calloc(p) \/ calloc_ok
  /\ (calloc_ok /\ read_is_undefined(p)) \/ garbage = "fail"
  /\ Fault(failed(calloc_ok) + failed(fail_at = 0))
  /\ LET decoded == read_decoded(p, fail_at, garbage)
     IN /\ fail_at = 0 \/ (calloc_ok /\ read_reaches_calloc(p) /\ ~read_is_undefined(p)
                            /\ fail_at <= decoded.allocs)
        /\ read_result' = [read_result EXCEPT ![p] = read_result_of(p, calloc_ok, decoded)]
  /\ ub' = [ub EXCEPT ![p] = ub[p] \/ (calloc_ok /\ read_is_undefined(p))]
  /\ UNCHANGED << alive, pc, lv, published_state, maps, heap, last, leaked, reader, codec >>

\* The caller of otel_process_ctx_read holds a result.
holds_result(p) == alive[p] /\ ~ub[p] /\ pc[p] = "idle" /\ read_result[p].held

\* Lines 575-587, called by the application on the data of the result it holds:
\* every string of data and the resources array are freed; the result, passed by
\* value, keeps its pointers.  The application frees the data of a result once
\* (a second free of them is its error, not a step of the library).
otel_process_ctx_read_data_drop(p) ==
  /\ holds_result(p) /\ ~read_result[p].data_freed
  /\ read_result' = [read_result EXCEPT ![p].data_freed = read_result[p].data # empty_data]
  /\ UNCHANGED << alive, pc, lv, published_state, maps, heap, last, ub, faults, leaked, reader, codec >>

\* Lines 621-626, called on the result the caller holds (on NULL it returns
\* false): a result that is no success is left as it is and the call returns
\* false; the data of a success is freed, the result becomes the failure
\* "Data dropped" and the call returns true.
otel_process_ctx_read_drop(p) ==
  /\ holds_result(p) /\ ~read_result[p].data_freed
  /\ read_result' = [read_result EXCEPT ![p] =
       IF ~read_result[p].success
       THEN [read_result[p] EXCEPT !.drop_returned = FALSE]
       ELSE [held |-> TRUE, success |-> FALSE, error_message |-> "Data dropped",
             data |-> empty_data, data_freed |-> FALSE, drop_returned |-> TRUE]]
  /\ UNCHANGED << alive, pc, lv, published_state, maps, heap, last, ub, faults, leaked, reader, codec >>

\* read_and_print_ctx of example_ctx.c returns (lines 45 and 73), and with it
\* the result goes: a failure as it is, a success once its data is freed.
read_and_print_ctx_return(p) ==
  /\ holds_result(p)
  /\ ~read_result[p].success \/ read_result[p].data_freed
  /\ read_result' = [read_result EXCEPT ![p] = NoRead]
  /\ UNCHANGED << alive, pc, lv, published_state, maps, heap, last, ub, faults, leaked, reader, codec >>

\* --------------------------------------------------------------------- fork

\* fork() in the parent between two calls, as update_and_fork of example_ctx.c
\* does: the child gets a copy of the singleton (state, as the parent's stands
\* at the instant of the fork) and of the heap, and of every mapping that is not
\* MADV_DONTFORK.  The parent then waits for the child.
fork_child(p, c, state) ==
  /\ alive' = [alive EXCEPT ![c] = TRUE]
  /\ published_state' = [published_state EXCEPT ![c] = state]
  /\ heap' = [heap EXCEPT ![c] = heap[p]]
  /\ maps' = [maps EXCEPT ![c] = [a \in Addrs |->
                IF maps[p][a].mapped /\ ~maps[p][a].dontfork THEN maps[p][a] ELSE Unmapped]]
  /\ leaked' = [leaked EXCEPT ![c] = {a \in leaked[p] : ~maps[p][a].dontfork}]

fork ==
  /\ Idle(ParentPid) /\ ~alive[ChildPid]
  /\ fork_child(ParentPid, ChildPid, published_state[ParentPid])
  /\ pc' = [pc EXCEPT ![ParentPid] = "wait"]
  /\ last' = [last EXCEPT ![ParentPid] = NoCall]
  /\ UNCHANGED << lv, read_result, ub, faults, reader, codec >>

\* The child returns from main between two calls; wait(NULL) returns in the parent.
child_exit ==
  /\ Idle(ChildPid) /\ pc[ParentPid] = "wait"
  /\ alive' = [alive EXCEPT ![ChildPid] = FALSE]
  /\ published_state' = [published_state EXCEPT ![ChildPid] = zero_state]
  /\ heap' = [heap EXCEPT ![ChildPid] = [b \in Bufs |-> Free]]
  /\ maps' = [maps EXCEPT ![ChildPid] = [a \in Addrs |-> Unmapped]]
  /\ last' = [last EXCEPT ![ChildPid] = NoCall]
  /\ leaked' = [leaked EXCEPT ![ChildPid] = {}]
  /\ pc' = [pc EXCEPT ![ParentPid] = "idle"]
  /\ UNCHANGED << lv, read_result, ub, faults, reader, codec >>

\* The singleton while the assignment of line 223 is under way: the fields of
\* `zeroed` are stored, in an order the compiler picks, the others not yet.
zeroing(state, zeroed) ==
  [f \in {"publisher_pid", "mapping", "payload"} |-> IF f \in zeroed THEN zero_state[f] ELSE state[f]]

\* fork() taken by another thread of the parent while its publisher thread is at
\* any statement, or between two stores of line 223: the child is a copy as of
\* that instant, with the forking thread alone, so that no call is in progress
\* in it.  The publisher thread of the parent keeps its place.  (The returns of
\* mmap and of calloc, before what they return is stored in the singleton, are
\* the statements publish_map_store and publish_encode_out.)
fork_concurrent(zeroed) ==
  /\ alive[ParentPid] /\ ~ub[ParentPid] /\ ~alive[ChildPid]
  /\ zeroed # {} => (pc[ParentPid] = "drop_zero" /\ zeroed # {"publisher_pid", "mapping", "payload"})
  /\ fork_child(ParentPid, ChildPid, zeroing(published_state[ParentPid], zeroed))
  /\ UNCHANGED << pc, lv, last, read_result, ub, faults, reader, codec >>

\* The child of a concurrent fork returns from main between two calls.
child_exit_concurrent ==
  /\ Idle(ChildPid)
  /\ alive' = [alive EXCEPT ![ChildPid] = FALSE]
  /\ published_state' = [published_state EXCEPT ![ChildPid] = zero_state]
  /\ heap' = [heap EXCEPT ![ChildPid] = [b \in Bufs |-> Free]]
  /\ maps' = [maps EXCEPT ![ChildPid] = [a \in Addrs |-> Unmapped]]
  /\ last' = [last EXCEPT ![ChildPid] = NoCall]
  /\ leaked' = [leaked EXCEPT ![ChildPid] = {}]
  /\ UNCHANGED << pc, lv, read_result, ub, faults, reader, codec >>

\* ---------------------------------------------------- out-of-process reader

\* A reader in another process follows the protocol of the header against the
\* parent: it finds the mapping in /proc/<pid>/maps, checks signature and
\* version, reads the timestamp, the length, the pointer and the payload bytes,
\* and reads the timestamp again.  Each read is one step; the writer's steps fall
\* between them.  It never writes to the parent.
others == << alive, pc, lv, published_state, maps, heap, last, read_result, ub, faults, leaked, codec >>

\* The header the reader reads at the address it found; a read of an address no
\* longer mapped fails and the reader gives up.
reader_header == maps[ParentPid][reader.addr].hdr

reader_gives_up ==
  /\ reader.pc \in {"signature", "timestamp", "size", "pointer", "bytes", "recheck"}
  /\ ~maps[ParentPid][reader.addr].mapped
  /\ reader' = ReaderIdle
  /\ UNCHANGED others

reader_at(label) ==
  reader.pc = label /\ maps[ParentPid][reader.addr].mapped

reader_find ==
  /\ reader.pc = "idle"
  /\ alive[ParentPid]
  /\ try_finding_mapping(ParentPid) # 0
  /\ reader' = [pc |-> "signature", addr |-> try_finding_mapping(ParentPid)]
  /\ UNCHANGED others

reader_signature ==
  /\ reader_at("signature")
  /\ reader' = IF reader_header.signature = "OTEL_CTX" /\ reader_header.version = 2
               THEN [reader EXCEPT !.pc = "timestamp"]
               ELSE ReaderIdle
  /\ UNCHANGED others

\* The first read of the timestamp; in_call records whether the writer was
\* inside a call then.  A reader that reads 0 stops there, to retry.
reader_timestamp ==
  /\ reader_at("timestamp")
  /\ reader' = [pc |-> IF reader_header.published_at_ns = 0 THEN "done" ELSE "size",
                addr |-> reader.addr,
                first |-> reader_header.published_at_ns,
                in_call |-> pc[ParentPid] # "idle"]
  /\ UNCHANGED others

reader_size ==
  /\ reader_at("size")
  /\ reader' = [pc |-> "pointer", addr |-> reader.addr, first |-> reader.first,
                in_call |-> reader.in_call, size |-> reader_header.payload_size]
  /\ UNCHANGED others

reader_pointer ==
  /\ reader_at("pointer")
  /\ reader' = [pc |-> "bytes", addr |-> reader.addr, first |-> reader.first,
                in_call |-> reader.in_call, size |-> reader.size,
                payload |-> reader_header.payload]
  /\ UNCHANGED others

\* What `size` bytes at `payload` in the parent hold: the attributes encoded
\* there, or "freed" for memory that is no longer (or not) an allocated payload.
bytes_at(payload) ==
  IF payload \in Bufs /\ heap[ParentPid][payload].status = "alloc"
  THEN heap[ParentPid][payload].data
  ELSE "freed"

reader_bytes ==
  /\ reader_at("bytes")
  /\ reader' = [pc |-> "recheck", addr |-> reader.addr, first |-> reader.first,
                in_call |-> reader.in_call, size |-> reader.size,
                payload |-> reader.payload, bytes |-> bytes_at(reader.payload)]
  /\ UNCHANGED others

reader_recheck ==
  /\ reader_at("recheck")
  /\ reader' = [pc |-> "done", addr |-> reader.addr, first |-> reader.first,
                in_call |-> reader.in_call, size |-> reader.size,
                payload |-> reader.payload, bytes |-> reader.bytes,
                second |-> reader_header.published_at_ns]
  /\ UNCHANGED others

reader_done ==
  /\ reader.pc = "done"
  /\ reader' = ReaderIdle
  /\ UNCHANGED others

\* -------------------------------------------------------------------- codec

\* An attribute object with a service.name of `len` bytes and `pairs` resource
\* pairs; pair i is (k<i>, v<i>), but with `first_key` for the first key when it
\* is not empty.
resource_entry(j, first_key) ==
  IF j = 1 /\ first_key # << >> THEN first_key
  ELSE IF j % 2 = 1 THEN << 107, (j + 1) \div 2 >>
  ELSE << 118, j \div 2 >>

CodecData(len, pairs, first_key) ==
  [base_data EXCEPT !.service_name = Str(len, 97),
                    !.resources = IF pairs = 0 THEN NULL
                                  ELSE [j \in 1..(2 * pairs) |-> resource_entry(j, first_key)]]

\* Lengths around the one-byte varint and the cap; pair counts around the
\* capacity of the decoder; first keys: none, one longer than a varint byte
\* tells, the cap, and an identity key.
CodecLengths == {0, 1, 127, 128, KEY_VALUE_LIMIT, KEY_VALUE_LIMIT + 1}
CodecPairs == {0, 1, 2, 100, 101}
CodecFirstKeys ==
  { << >>, Str(130, 107), Str(KEY_VALUE_LIMIT, 107), Str(KEY_VALUE_LIMIT + 1, 107),
    KeyServiceName, KeyTelemetrySdkName }
\* The value of the first resource pair: the short one, the cap, one byte over.
CodecFirstValues == {<< 118, 1 >>, Str(KEY_VALUE_LIMIT, 118), Str(KEY_VALUE_LIMIT + 1, 118)}

CodecInputs ==
  {[len |-> len, pairs |-> n, first_key |-> k, first_value |-> v] :
     len \in CodecLengths, n \in CodecPairs, k \in CodecFirstKeys, v \in CodecFirstValues}

codec_data(input) ==
  IF input.pairs = 0 THEN CodecData(input.len, input.pairs, input.first_key)
  ELSE [CodecData(input.len, input.pairs, input.first_key) EXCEPT !.resources[2] = input.first_value]

\* The allocation of the decoder that fails: none, the array of line 501, the
\* first copy of a value (line 540), the copy of the key (line 552) of the first
\* resource pair after the seven identity pairs.
DecoderFailAt == {0, 1, 2, 10}

\* otel_process_ctx_encode_protobuf_payload on the input, then
\* otel_process_ctx_decode_payload on the bytes and size it returned.
codec_encode ==
  /\ codec.phase = "input"
  /\ codec' = [phase |-> "encoded", input |-> codec.input,
               encoded |-> otel_process_ctx_encode_protobuf_payload(codec_data(codec.input), TRUE)]
  /\ UNCHANGED << alive, pc, lv, published_state, maps, heap, last, read_result, ub, faults, leaked, reader >>

codec_decode(fail_at) ==
  /\ codec.phase = "encoded"
  /\ codec.encoded.success
  /\ fail_at <= otel_process_ctx_decode_payload(codec.encoded.bytes, codec.encoded.size, fail_at).allocs
  /\ codec' = [phase |-> "decoded", input |-> codec.input, encoded |-> codec.encoded,
               fail_at |-> fail_at,
               decoded |-> otel_process_ctx_decode_payload(codec.encoded.bytes, codec.encoded.size, fail_at)]
  /\ UNCHANGED << alive, pc, lv, published_state, maps, heap, last, read_result, ub, faults, leaked, reader >>

\* ------------------------------------------------------------ specification

\* The steps of the publisher of process p; MunmapOutcomes is what its munmap
\* calls may return.
Publisher(p, MunmapOutcomes) ==
  \/ \E d \in Inputs, t \in 0..MaxTime : otel_process_ctx_publish(p, d, t)
  \/ otel_process_ctx_drop_current(p)
  \/ drop_zero(p)
  \/ \E munmap_ok \in MunmapOutcomes : drop_unmap(p, munmap_ok)
  \/ drop_free(p)
  \/ \E calloc_ok \in BOOLEAN, buf \in Bufs \cup {NULL_PTR} : publish_encode(p, calloc_ok, buf)
  \/ publish_encode_out(p)
  \/ publish_pid(p)
  \/ \E memfd_ok, ftruncate_ok, mmap_ok \in BOOLEAN, mapping \in Addrs \cup {NULL_PTR, MAP_FAILED} :
        publish_map(p, memfd_ok, ftruncate_ok, mmap_ok, mapping)
  \/ \E close_ok \in BOOLEAN : publish_map_store(p, close_ok)
  \/ \E madvise_ok \in BOOLEAN : publish_madvise(p, madvise_ok)
  \/ \E field \in {"version", "payload_size", "published_at_ns", "payload"} : publish_populate(p, field)
  \/ publish_signature(p)
  \/ \E prctl_ok \in BOOLEAN : publish_prctl(p, prctl_ok)
  \/ \E calloc_ok \in BOOLEAN, buf \in Bufs \cup {NULL_PTR} : update_encode(p, calloc_ok, buf)
  \/ update_zero(p)
  \/ \E field \in {"payload_size", "payload"} : update_install(p, field)
  \/ update_timestamp(p)
  \/ \E prctl_ok \in BOOLEAN : update_prctl(p, prctl_ok)
  \/ update_free(p)
  \/ update_bookkeeping(p)

\* The steps of the in-process reader of p and of its caller.
SelfReader(p) ==
  \/ \E calloc_ok \in BOOLEAN, fail_at \in DecoderFailAt, garbage \in {"fail"} \cup ValidInputs :
        otel_process_ctx_read(p, calloc_ok, fail_at, garbage)
  \/ otel_process_ctx_read_data_drop(p)
  \/ otel_process_ctx_read_drop(p)
  \/ read_and_print_ctx_return(p)

Step(p, MunmapOutcomes) == Publisher(p, MunmapOutcomes) \/ SelfReader(p)

\* One process, every system call and allocation of the library free to fail.
Next == Step(ParentPid, BOOLEAN)

Spec == Init /\ [][Next]_vars

\* The process and a child it forks between two calls and waits for; munmap,
\* which fails on no mapping the library makes, succeeds.
NextFork == (\E p \in Procs : Step(p, {TRUE})) \/ fork \/ child_exit

SpecFork == Init /\ [][NextFork]_vars

\* The process and a child forked by another of its threads at any statement of
\* the publisher thread.  The two have address spaces of their own, so a step of
\* one changes nothing the other reads: the publisher thread of the parent is
\* followed while there is no child, the child from its birth to its exit.
\* The failures of system calls and allocations are those of the parent; the
\* child makes one call, of drop_current, publish(NULL) or publish(a) with the
\* clock at 1.
scheduled(p) ==
  IF p = ParentPid THEN ~alive[ChildPid]
  ELSE /\ faults' = faults
       /\ pc[p] = "idle" => last[p] = NoCall
       /\ lv'[p].data \in {"NULL", "a"} /\ lv'[p].published_at_ns <= 1
       /\ read_result'[p] = NoRead

NextForkAny ==
  \/ \E p \in Procs : Step(p, {TRUE}) /\ scheduled(p)
  \/ \E zeroed \in SUBSET {"publisher_pid", "mapping", "payload"} : fork_concurrent(zeroed)
  \/ child_exit_concurrent

SpecForkAny == Init /\ [][NextForkAny]_vars

\* The process, its system calls and allocations succeeding, and a reader in
\* another process.
InitReader ==
  /\ alive = [p \in Procs |-> p = ParentPid]
  /\ pc = [p \in Procs |-> "idle"]
  /\ lv = [p \in Procs |-> no_locals]
  /\ published_state = [p \in Procs |-> zero_state]
  /\ maps = [p \in Procs |-> [a \in Addrs |-> Unmapped]]
  /\ heap = [p \in Procs |-> [b \in Bufs |-> Free]]
  /\ last = [p \in Procs |-> NoCall]
  /\ read_result = [p \in Procs |-> NoRead]
  /\ ub = [p \in Procs |-> FALSE]
  /\ faults = MaxFaults
  /\ leaked = [p \in Procs |-> {}]
  /\ reader = ReaderIdle
  /\ codec = NoCodec

NextReader ==
  \/ Publisher(ParentPid, {TRUE})
  \/ reader_find \/ reader_signature \/ reader_timestamp \/ reader_size \/ reader_pointer
  \/ reader_bytes \/ reader_recheck \/ reader_done \/ reader_gives_up

SpecReader == InitReader /\ [][NextReader]_vars

\* The encoder and the decoder on attribute objects drawn from CodecInputs.
InitCodec ==
  /\ alive = [p \in Procs |-> p = ParentPid]
  /\ pc = [p \in Procs |-> "idle"]
  /\ lv = [p \in Procs |-> no_locals]
  /\ published_state = [p \in Procs |-> zero_state]
  /\ maps = [p \in Procs |-> [a \in Addrs |-> Unmapped]]
  /\ heap = [p \in Procs |-> [b \in Bufs |-> Free]]
  /\ last = [p \in Procs |-> NoCall]
  /\ read_result = [p \in Procs |-> NoRead]
  /\ ub = [p \in Procs |-> FALSE]
  /\ faults = 0
  /\ leaked = [p \in Procs |-> {}]
  /\ reader = ReaderIdle
  /\ codec \in {[phase |-> "input", input |-> i] : i \in CodecInputs}

NextCodec == codec_encode \/ \E fail_at \in DecoderFailAt : codec_decode(fail_at)

SpecCodec == InitCodec /\ [][NextCodec]_vars

\* ------------------------------------------------------------- properties

Running(p) == alive[p] /\ ~ub[p]

mapped_regions(p) == {a \in Addrs : maps[p][a].mapped}

allocated(p) == {b \in Bufs : heap[p][b].status = "alloc"}

\* hdr has version 2, a nonzero timestamp and the pointer and length of an
\* allocated buffer that holds a whole encoded payload.
header_complete(p, hdr) ==
  /\ hdr.version = 2 /\ hdr.published_at_ns # 0
  /\ hdr.payload \in allocated(p)
  /\ hdr.payload_size = heap[p][hdr.payload].size
  /\ hdr.payload_size = Len(buffer_bytes(heap[p][hdr.payload]))

\* p has a region of its own with a signed, complete header on the singleton's payload.
context_valid(p) ==
  /\ ctx_is_published(published_state[p], p)
  /\ is_mapped(p, published_state[p].mapping)
  /\ current_header(p).signature = "OTEL_CTX"
  /\ header_complete(p, current_header(p))
  /\ current_header(p).payload = published_state[p].payload

\* The header and payload of p are those of the call publish(d) that read the clock as t.
context_reflects(p, d, t) ==
  /\ context_valid(p)
  /\ current_header(p).published_at_ns = t
  /\ current_header(p).payload_size = EncodedByName[d].size
  /\ heap[p][current_header(p).payload].data = d

\* p is back from a publish of attributes within the caps.
publish_returned(p) ==
  alive[p] /\ pc[p] = "idle" /\ last[p].op = "publish" /\ last[p].data \in ValidInputs

\* What of process p the library reads and writes.
library_state(p) == << published_state[p], maps[p], heap[p] >>

\* The statements of update after the new payload is encoded.
UpdateWindow ==
  {"update_zero", "update_install", "update_timestamp", "update_prctl", "update_free", "update_bookkeeping"}

\* C1 as stated: a publish of attributes within the caps returns success and
\* leaves a valid region, or returns failure and leaves no region and no
\* allocated payload buffer.
C1_SuccessOrNothingLeft ==
  \A p \in Procs : publish_returned(p) =>
    IF last[p].result.success
    THEN context_valid(p)
    ELSE mapped_regions(p) = {} /\ allocated(p) = {}

C1_Outcome ==
  \A p \in Procs : publish_returned(p) =>
    IF last[p].result.success
    THEN context_reflects(p, last[p].data, last[p].published_at_ns)
    ELSE \/ last[p].result.error_message = "Failed to get current time"
         \/ last[p].entry = "published" /\ context_valid(p)
         \/ published_state[p] = zero_state /\ mapped_regions(p) = {} /\ allocated(p) = {}

C1_FailsEarlyUnchanged ==
  \A p \in Procs :
    (/\ alive[p] /\ alive'[p]
     /\ \/ pc[p] = "idle" /\ pc'[p] \in {"idle", "update_encode"}
        \/ pc[p] = "update_encode" /\ pc'[p] = "idle")
    => library_state(p)' = library_state(p)

\* C1, amended: a publish of attributes within the caps, under any outcome of
\* the clock read, memfd_create, ftruncate, mmap, close, madvise and allocation
\* (munmap not failing), returns success and leaves a valid region that
\* reflects its attributes; or
\* returns failure and then either the clock read failed and nothing changed,
\* or the context was published by this process and is left valid as it was,
\* or the singleton is zero and the process has no region and no allocated
\* payload buffer.
C1_PublishOutcome == []C1_Outcome /\ [][C1_FailsEarlyUnchanged]_vars

\* A publish in the child failed at madvise and rolled back, inherited payload included.
C1_Witness ==
  \E p \in Procs :
    /\ publish_returned(p) /\ ~last[p].result.success
    /\ last[p].entry = "inherited"
    /\ last[p].result.error_message = "Failed to setup MADV_DONTFORK"

\* C2: a reader that read the timestamp, the length, the pointer, the payload
\* bytes and the timestamp again, and got the same nonzero timestamp twice, has
\* a length and bytes of one publication, read from a buffer that was allocated;
\* a reader that got timestamp 0 read it while the writer was inside a call.
C2_SameTimestampSameSnapshot ==
  /\ (reader.pc = "done" /\ reader.first # 0 /\ reader.second = reader.first)
       => /\ reader.bytes # "freed"
          /\ reader.size = EncodedByName[reader.bytes].size
  /\ (reader.pc = "done" /\ reader.first = 0) => reader.in_call

in_update(p) == Running(p) /\ pc[p] \in UpdateWindow

\* The header of update's new context b, given that of the old context a.
header_b(p) ==
  [lv[p].entry_hdr EXCEPT !.published_at_ns = lv[p].published_at_ns,
                          !.payload_size = lv[p].payload_size,
                          !.payload = lv[p].payload]

C3_Shapes ==
  \A p \in Procs : in_update(p) =>
    LET hdr == current_header(p)
    IN /\ hdr.signature = "OTEL_CTX" /\ hdr.version = 2
       /\ lv[p].payload # lv[p].entry_hdr.payload
       /\ \/ hdr = lv[p].entry_hdr /\ hdr.published_at_ns # 0
          \/ hdr.published_at_ns = 0
          \/ hdr = header_b(p) /\ hdr.published_at_ns # 0

C3_Final ==
  \A p \in Procs :
    publish_returned(p) /\ last[p].entry = "published" /\ last[p].result.success
      => context_reflects(p, last[p].data, last[p].published_at_ns)

C3_StoresUnderZero ==
  \A p \in Procs :
    (/\ Running(p) /\ lv[p].op = "publish" /\ lv[p].entry = "published"
     /\ \/ pc[p] = "update_install"
        \/ current_header(p)'.payload_size # current_header(p).payload_size
        \/ current_header(p)'.payload # current_header(p).payload)
    => current_header(p).published_at_ns = 0 /\ current_header(p)'.published_at_ns = 0

\* C3: while publish(b) updates context a, the header shows a's timestamp with
\* a's length and pointer, timestamp 0, or b's timestamp with b's length and
\* pointer; length and pointer are stored only while the timestamp is 0; and on
\* success the header reflects b.
C3_UpdateShapes == []C3_Shapes /\ []C3_Final /\ [][C3_StoresUnderZero]_vars

\* An update between its two stores of the timestamp, b's length and pointer in place.
C3_Witness ==
  \E p \in Procs :
    /\ in_update(p) /\ pc[p] = "update_timestamp"
    /\ current_header(p).published_at_ns = 0
    /\ current_header(p).payload = lv[p].payload
    /\ current_header(p).payload_size # lv[p].entry_hdr.payload_size

C4_SignedIsComplete ==
  \A p \in Procs : \A a \in Addrs :
    (/\ Running(p) /\ a = published_state[p].mapping /\ ctx_is_published(published_state[p], p)
     /\ maps[p][a].mapped /\ maps[p][a].hdr.signature = "OTEL_CTX"
     /\ pc[p] \notin {"update_install", "update_timestamp"})
    => header_complete(p, maps[p][a].hdr)

\* The mapping the drop_current in progress was called on.
dropping(p) == IF pc[p] = "drop_zero" THEN published_state[p].mapping ELSE lv[p].state.mapping

C4_UnsignedOnFailure ==
  \A p \in Procs :
    (/\ Running(p) /\ pc[p] \in {"drop_zero", "drop_unmap", "drop_free"}
     /\ lv[p].ret \in {"fail_truncate", "fail_close", "fail_map", "fail_madvise"}
     /\ is_mapped(p, dropping(p)))
    => maps[p][dropping(p)].hdr = zero_header

C4_SignatureLast ==
  \A p \in Procs :
    /\ \A a \in Addrs :
         (/\ alive[p] /\ maps[p][a].mapped' /\ maps[p][a].hdr.signature' = "OTEL_CTX"
          /\ ~(maps[p][a].mapped /\ maps[p][a].hdr.signature = "OTEL_CTX"))
         => /\ pc[p] = "publish_signature" /\ a = published_state[p].mapping
            /\ maps[p][a].mapped /\ header_complete(p, maps[p][a].hdr)
            /\ maps[p][a].hdr' = [maps[p][a].hdr EXCEPT !.signature = "OTEL_CTX"]
    /\ (Running(p) /\ pc[p] = "publish_prctl" /\ pc'[p] # "publish_prctl")
         => pc'[p] = "idle" /\ last'[p].result.success

\* C4: in and after a first publish, between the header stores too, a region whose
\* signature is OTEL_CTX already holds version 2, the length, the nonzero
\* timestamp and the pointer to the encoded payload; the signature is the last
\* header field written, and a publish that fails leaves its region unsigned.
C4_SignatureGuardsHeader ==
  []C4_SignedIsComplete /\ []C4_UnsignedOnFailure /\ [][C4_SignatureLast]_vars

\* A first publish has just stored the signature.
C4_Witness ==
  \E p \in Procs :
    /\ Running(p) /\ pc[p] = "publish_prctl" /\ lv[p].entry = "unpublished"
    /\ current_header(p).signature = "OTEL_CTX"

C5_OldPayloadLive ==
  \A p \in Procs :
    (Running(p) /\ pc[p] \in UpdateWindow \ {"update_bookkeeping"})
      => /\ published_state[p].payload \in allocated(p)
         /\ published_state[p].payload = lv[p].entry_hdr.payload
         /\ published_state[p].payload # lv[p].payload

C5_FreeAfterSwitch ==
  \A p \in Procs : \A b \in Bufs :
    (/\ Running(p) /\ lv[p].op = "publish" /\ lv[p].entry = "published"
     /\ heap[p][b].status = "alloc" /\ heap'[p][b].status # "alloc")
    => /\ b = lv[p].entry_hdr.payload
       /\ current_header(p).payload = lv[p].payload /\ current_header(p).payload # b
       /\ current_header(p).payload_size = lv[p].payload_size
       /\ current_header(p).published_at_ns = lv[p].published_at_ns
       /\ current_header(p).published_at_ns # 0

\* C5: an update frees the old payload buffer only after the header's pointer
\* is the new buffer and the new nonzero timestamp is stored; the old buffer is
\* allocated throughout the window in which the timestamp is 0.
C5_OldPayloadFreedLast == []C5_OldPayloadLive /\ [][C5_FreeAfterSwitch]_vars

\* An update has freed the old payload, the header on the new one.
C5_Witness ==
  \E p \in Procs :
    /\ Running(p) /\ pc[p] = "update_bookkeeping"
    /\ lv[p].entry_hdr.payload \notin allocated(p)
    /\ current_header(p).payload = lv[p].payload
    /\ current_header(p).published_at_ns = lv[p].published_at_ns

C6_Step ==
  \A p \in Procs : Running(p) =>
    /\ (pc[p] = "idle" /\ pc'[p] = "update_encode") => library_state(p)' = library_state(p)
    /\ (pc[p] = "update_encode" /\ (lv[p].data \in InvalidInputs \/ faults' > faults))
         => /\ pc'[p] = "idle"
            /\ ~last'[p].result.success
            /\ library_state(p)' = library_state(p)
            /\ current_header(p).published_at_ns # 0
            /\ current_header(p) = lv[p].entry_hdr
            /\ published_state[p].payload \in allocated(p)

\* C6: a publish over a context this process published whose payload cannot be
\* encoded (a null value, a key or value over 4096 bytes, a failed allocation)
\* returns failure with the header, the old payload buffer and the singleton
\* unchanged, the buffer not freed and the timestamp never 0.
C6_FailedUpdateChangesNothing == [][C6_Step]_vars

\* An update was refused for its attributes and the context is as valid as before.
C6_Witness ==
  \E p \in Procs :
    /\ alive[p] /\ pc[p] = "idle" /\ last[p].op = "publish"
    /\ last[p].entry = "published" /\ last[p].data \in InvalidInputs
    /\ ~last[p].result.success
    /\ context_valid(p)

C7_Child ==
  /\ ~ub[ChildPid] /\ ~ub[ParentPid]
  /\ (alive[ChildPid] /\ pc[ChildPid] = "drop_free" /\ lv[ChildPid].state.publisher_pid # getpid(ChildPid))
       => ~lv[ChildPid].munmap_called
  /\ (publish_returned(ChildPid) /\ last[ChildPid].failures = 0)
       => /\ last[ChildPid].result.success
          /\ context_reflects(ChildPid, last[ChildPid].data, last[ChildPid].published_at_ns)
  /\ (alive[ChildPid] /\ ctx_is_published(published_state[ParentPid], ParentPid))
       => context_valid(ParentPid)

C7_ParentUntouched ==
  pc[ParentPid] = "wait" => library_state(ParentPid)' = library_state(ParentPid)

\* C7: after fork, the publish and drop_current of the child leave the parent's
\* region mapped and its header, payload buffer and singleton unchanged, so a
\* read in the parent finds what it found before; drop_current in the child never
\* calls munmap for a singleton whose publisher_pid is not the child's; and a
\* publish in the child in which no system call or allocation fails succeeds.
C7_ForkIsolation == []C7_Child /\ [][C7_ParentUntouched]_vars

\* The child has published over the inherited singleton while the parent's context stands.
C7_Witness ==
  /\ publish_returned(ChildPid) /\ last[ChildPid].result.success
  /\ last[ChildPid].entry = "inherited"
  /\ context_valid(ParentPid)

C8_Inherited ==
  \A p \in Procs : Running(p) =>
    /\ pc[p] \in UpdateWindow \cup {"update_encode"} => lv[p].entry = "published"
    /\ (pc[p] \in {"drop_unmap", "drop_free"} /\ lv[p].state.publisher_pid \notin {0, getpid(p)})
         => /\ lv[p].entry = "inherited" /\ ~lv[p].munmap_called
            /\ published_state[p] = zero_state
            /\ pc[p] = "drop_free" => lv[p].state.payload \in allocated(p)
    /\ pc[p] = "publish_encode"
         => published_state[p] = zero_state /\ allocated(p) = {} /\ mapped_regions(p) = {}
    /\ (publish_returned(p) /\ last[p].entry = "inherited" /\ last[p].result.success)
         => /\ context_reflects(p, last[p].data, last[p].published_at_ns)
            /\ published_state[p].publisher_pid = getpid(p)
            /\ mapped_regions(p) = {published_state[p].mapping}
            /\ allocated(p) = {published_state[p].payload}
    /\ (pc[p] = "idle" /\ last[p].op = "drop_current" /\ last[p].entry = "inherited")
         => /\ last[p].result.success
            /\ published_state[p] = zero_state /\ allocated(p) = {} /\ mapped_regions(p) = {}

C8_NoDoubleFree == \A p \in Procs : ~ub[p]

\* C8: a child that inherited the singleton treats the context as absent:
\* publish takes the create path, frees the inherited payload once and goes on
\* from the state of an unpublished process, to a new region with the child's
\* pid; drop_current returns true, calls no munmap, frees the inherited payload
\* and zeroes the singleton.
C8_InheritedIsUnpublished == C8_Inherited /\ C8_NoDoubleFree

\* The child's publish has dropped the inherited singleton and is about to encode.
C8_Witness ==
  /\ Running(ChildPid) /\ pc[ChildPid] = "publish_encode"
  /\ lv[ChildPid].entry = "inherited"

\* The resource pairs of an attribute object, none for a NULL array.
resource_pairs(data) == IF data.resources = NULL THEN << >> ELSE data.resources

codec_within_caps(input) ==
  /\ input.len <= KEY_VALUE_LIMIT
  /\ Len(input.first_key) <= KEY_VALUE_LIMIT
  /\ Len(input.first_value) <= KEY_VALUE_LIMIT

\* Encoding succeeded, and decoding gave back the seven identity fields and the
\* resource pairs of the input, in order.
codec_round_trip ==
  /\ codec.encoded.success
  /\ codec.encoded.size = Len(codec.encoded.bytes)
  /\ (codec.phase = "decoded" /\ codec.fail_at = 0) =>
       /\ codec.decoded.success
       /\ \A i \in 1..7 :
            codec.decoded.data[IdentityFields[i]] = codec_data(codec.input)[IdentityFields[i]]
       /\ codec.decoded.data.resources = resource_pairs(codec_data(codec.input))

\* C9 as stated: for every attribute object within the caps, whatever the number
\* of resource pairs and their keys, decoding the encoded payload (no allocation
\* of the decoder failing) gives back the attribute object.
C9_RoundTripAnyResources ==
  (codec.phase \in {"encoded", "decoded"} /\ codec_within_caps(codec.input)) => codec_round_trip

\* C9, amended: for every attribute object within the caps that has at most 100
\* resource pairs, none of them with the key of an identity field, decoding the
\* encoded payload, when no allocation of the decoder fails, succeeds and gives
\* back the seven identity fields byte for byte and the resource pairs in input
\* order.
C9_RoundTrip ==
  (/\ codec.phase \in {"encoded", "decoded"}
   /\ codec_within_caps(codec.input)
   /\ codec.input.pairs <= 100
   /\ identity_index(codec.input.first_key) = 0)
  => codec_round_trip

\* 100 resource pairs and a service.name of 4096 bytes went through the encoder and the decoder.
C9_Witness ==
  /\ codec.phase = "decoded" /\ codec.fail_at = 0 /\ codec.decoded.success
  /\ codec.input.pairs = 100 /\ codec.input.len = KEY_VALUE_LIMIT
  /\ Len(codec.decoded.data.resources) = 200

drop_returned(p) == alive[p] /\ pc[p] = "idle" /\ last[p].op = "drop_current"

\* C10 as stated: after drop_current returns, whatever it returns, no region is
\* mapped and a read fails with "No OTEL_CTX mapping found".
C10_NothingMappedAfterDrop ==
  \A p \in Procs : drop_returned(p) /\ ~ub[p] =>
    /\ mapped_regions(p) = {}
    /\ read_outcome(p, TRUE, 0, "fail").error_message = "No OTEL_CTX mapping found"

\* C10, amended: after drop_current returns, the regions still mapped are those
\* whose munmap failed, in this call or an earlier one; it returns true exactly
\* when its munmap did not fail; with no failed munmap no region is mapped and a
\* read fails with "No OTEL_CTX mapping found".
C10_OnlyFailedMunmapLeavesRegion ==
  \A p \in Procs : drop_returned(p) =>
    /\ mapped_regions(p) = leaked[p]
    /\ last[p].result.success <=> last[p].failures = 0
    /\ published_state[p] = zero_state
    /\ leaked[p] = {} =>
         read_outcome(p, TRUE, 0, "fail").error_message = "No OTEL_CTX mapping found"

\* drop_current unmapped the region of a published context.
C10_Witness ==
  \E p \in Procs :
    /\ drop_returned(p) /\ last[p].entry = "published" /\ last[p].result.success
    /\ mapped_regions(p) = {}

\* The regions of p that carry the signature.
signed_regions(p) ==
  {a \in Addrs : maps[p][a].mapped /\ maps[p][a].hdr.signature = "OTEL_CTX"}

\* C11: in every reachable state at most one region that carries the OTEL_CTX
\* signature is mapped in a process.
C11_AtMostOneSigned ==
  \A p \in Procs : alive[p] => Cardinality(signed_regions(p)) <= 1

\* hdr points at an allocated buffer that holds a whole encoded payload of the
\* length hdr gives.
payload_matches(p, hdr) ==
  /\ hdr.payload \in allocated(p)
  /\ hdr.payload_size = heap[p][hdr.payload].size
  /\ hdr.payload_size = Len(buffer_bytes(heap[p][hdr.payload]))

\* C12 as stated: in every state of a mapped region, the steps of publish and
\* update included, the timestamp is nonzero exactly when the pointer is that of
\* a whole payload of the header's length.
C12_TimestampIffPayload ==
  \A p \in Procs : \A a \in Addrs :
    (Running(p) /\ maps[p][a].mapped)
      => (maps[p][a].hdr.published_at_ns # 0 <=> payload_matches(p, maps[p][a].hdr))

\* C12, amended: in every state of the region the singleton of its publisher
\* refers to, once it carries the signature and through the steps of update, a
\* nonzero timestamp implies that the pointer is that of a whole payload of the
\* header's length; the timestamp is 0 only in update between the store of 0 and
\* the store of the new timestamp, where length and pointer may be the new ones.
C12_NonzeroTimestampGuardsPayload ==
  \A p \in Procs :
    (/\ Running(p) /\ ctx_is_published(published_state[p], p)
     /\ is_mapped(p, published_state[p].mapping)
     /\ current_header(p).signature = "OTEL_CTX")
    => /\ current_header(p).published_at_ns # 0 => payload_matches(p, current_header(p))
       /\ current_header(p).published_at_ns = 0 => pc[p] \in {"update_install", "update_timestamp"}

\* An update has stored the new length under timestamp 0, the pointer still the old one.
C12_Witness ==
  \E p \in Procs :
    /\ Running(p) /\ pc[p] = "update_install" /\ lv[p].pending = {"payload"}
    /\ current_header(p).published_at_ns = 0
    /\ current_header(p).payload_size = lv[p].payload_size
    /\ ~payload_matches(p, current_header(p))

\* The statement of update that follows the one at `label`.
update_next(label) ==
  CASE label = "update_zero" -> "update_install"
    [] label = "update_install" -> "update_timestamp"
    [] label = "update_timestamp" -> "update_prctl"
    [] label = "update_prctl" -> "update_free"
    [] label = "update_free" -> "update_bookkeeping"
    [] label = "update_bookkeeping" -> "idle"

C13_NoFailureExit ==
  \A p \in Procs :
    (Running(p) /\ pc[p] \in UpdateWindow /\ pc'[p] # pc[p])
    => /\ ~ub'[p]
       /\ pc'[p] = update_next(pc[p])
       /\ pc[p] = "update_zero" => current_header(p)'.published_at_ns = 0
       /\ pc[p] = "update_timestamp"
            => /\ lv[p].published_at_ns # 0
               /\ current_header(p)' = header_b(p)
               /\ payload_matches(p, current_header(p)')
       /\ pc[p] = "update_bookkeeping"
            => /\ last'[p].result.success
               /\ current_header(p)' = current_header(p)
               /\ current_header(p).published_at_ns = lv[p].published_at_ns
               /\ current_header(p).payload = lv[p].payload
               /\ current_header(p).payload_size = lv[p].payload_size

\* No call of the library is in progress in p.
quiescent(p) == alive[p] /\ ~ub[p] /\ pc[p] \in {"idle", "wait"}

C13_NoZeroAtRest ==
  \A p \in Procs : quiescent(p) =>
    \A a \in signed_regions(p) : maps[p][a].hdr.published_at_ns # 0

\* C13: an update that has stored timestamp 0 has no failure exit: it goes on to
\* store the new nonzero timestamp over the new length and pointer and returns
\* success; so with no publish in progress no region that carries the signature
\* has timestamp 0, and what a reader reads after the writer returned is the new
\* timestamp with the new length and payload.
C13_ZeroWindowCloses == []C13_NoZeroAtRest /\ [][C13_NoFailureExit]_vars

\* An update has returned, the header at the timestamp the call read from the clock.
C13_Witness ==
  \E p \in Procs :
    /\ quiescent(p) /\ last[p].op = "publish" /\ last[p].entry = "published"
    /\ last[p].result.success
    /\ signed_regions(p) # {}
    /\ current_header(p).published_at_ns = last[p].published_at_ns

C14_Step ==
  \A p \in Procs :
    (Running(p) /\ pc[p] = "update_bookkeeping" /\ pc'[p] = "idle" /\ last'[p].result.success)
      => current_header(p)'.published_at_ns > lv[p].entry_hdr.published_at_ns

\* C14: when publish succeeds on a context this process published, the header's
\* timestamp after the call is greater than the header's timestamp before it.
C14_TimestampIncreases == [][C14_Step]_vars

\* The attribute objects with a key or a value of 4097 bytes.
Oversized == {"longvalue", "longkey"}

\* The regions of p that /proc/self/maps shows with the name OTEL_CTX.
named_regions(p) ==
  {a \in Addrs : maps[p][a].mapped /\ (maps[p][a].memfd \/ maps[p][a].anon_name)}

\* p is back from a publish of attributes with a key or value of 4097 bytes.
oversized_returned(p) ==
  alive[p] /\ pc[p] = "idle" /\ last[p].op = "publish" /\ last[p].data \in Oversized

\* C15 as stated: a publish with a key or value of 4097 bytes, in any reachable
\* state, returns failure and leaves no region named OTEL_CTX mapped.
C15_OversizeLeavesNoRegion ==
  \A p \in Procs : oversized_returned(p) =>
    ~last[p].result.success /\ named_regions(p) = {}

C15_Outcome ==
  \A p \in Procs : oversized_returned(p) =>
    /\ ~last[p].result.success
    /\ last[p].result.error_message \in
         { "Failed to get current time",
           "Length of key in otel_process_ctx_data exceeds 4096 limit",
           "Length of value in otel_process_ctx_data exceeds 4096 limit" }
    /\ last[p].entry = "published" => context_valid(p)
    /\ last[p].entry # "published" => mapped_regions(p) = leaked[p]

C15_MapsNothing ==
  \A p \in Procs :
    (/\ Running(p)
     /\ \/ lv[p].op = "publish" /\ lv[p].data \in Oversized
        \/ lv'[p].op = "publish" /\ lv'[p].data \in Oversized)
    => maps'[p] = maps[p]

\* C15, amended: a publish with a key or value of 4097 bytes, in any reachable
\* state, returns failure and maps and unmaps nothing: a context this process
\* published stays mapped and valid; otherwise no region is mapped after the
\* call, save one whose munmap had failed before.
C15_OversizeRejected == []C15_Outcome /\ [][C15_MapsNothing]_vars

\* The child's publish over the inherited singleton was refused for a long key.
C15_Witness ==
  /\ oversized_returned(ChildPid) /\ last[ChildPid].entry = "inherited"
  /\ last[ChildPid].result.error_message = "Length of key in otel_process_ctx_data exceeds 4096 limit"
  /\ mapped_regions(ChildPid) = {}

C16_Returned ==
  \A p \in Procs : drop_returned(p) =>
    /\ published_state[p] = zero_state
    /\ ~last[p].result.success => (last[p].entry = "published" /\ last[p].failures = 1)

C16_Step ==
  \A p \in Procs :
    (Running(p) /\ pc[p] = "drop_free")
    => /\ pc'[p] # "drop_free"
       /\ published_state[p] = zero_state /\ published_state'[p] = zero_state
       /\ ~ub'[p]
       /\ lv[p].state.payload # NULL_PTR
            => /\ lv[p].state.payload \in allocated(p)
               /\ heap'[p][lv[p].state.payload].status # "alloc"
       /\ ~lv[p].success
            => /\ lv[p].munmap_called
               /\ lv[p].state.mapping \in leaked[p] /\ is_mapped(p, lv[p].state.mapping)
       /\ lv[p].ret = "caller" => last'[p].result.success = lv[p].success

\* C16: drop_current returns false only when its munmap of the header region
\* failed; in every call, whatever it returns, the singleton is zeroed and the
\* payload buffer the singleton recorded at the call is freed.
C16_DropFreesAlways == []C16_Returned /\ [][C16_Step]_vars

\* drop_current returned false after a failed munmap, the payload freed all the same.
C16_Witness ==
  \E p \in Procs :
    /\ drop_returned(p) /\ ~last[p].result.success
    /\ published_state[p] = zero_state /\ allocated(p) = {}
    /\ leaked[p] # {}

\* C17 as stated: drop_current with no context published by this process
\* returns true and leaves the singleton zero; of two calls in a row with no
\* publish between them both return true, and the second unmaps and frees nothing.
C17_Unpublished ==
  \A p \in Procs : drop_returned(p) /\ last[p].entry # "published" =>
    last[p].result.success /\ published_state[p] = zero_state

C17_FirstReturnedTrue ==
  \A p \in Procs :
    (Running(p) /\ pc[p] = "idle" /\ last[p].op = "drop_current" /\ lv'[p].op = "drop_current")
      => last[p].result.success

C17_SecondDoesNothing ==
  \A p \in Procs :
    (Running(p) /\ lv[p].op = "drop_current" /\ lv[p].after = "drop_current")
    => /\ lv[p].entry = "unpublished"
       /\ maps'[p] = maps[p] /\ heap'[p] = heap[p]
       /\ published_state'[p] = zero_state
       /\ ~lv[p].munmap_called /\ ~lv'[p].munmap_called
       /\ pc'[p] = "idle" => last'[p].result.success

C17_TwiceBothTrue ==
  []C17_Unpublished /\ [][C17_FirstReturnedTrue]_vars /\ [][C17_SecondDoesNothing]_vars

C17_FirstFailsOnlyOnMunmap ==
  \A p \in Procs :
    (Running(p) /\ pc[p] = "idle" /\ last[p].op = "drop_current" /\ lv'[p].op = "drop_current")
      => \/ last[p].result.success
         \/ last[p].entry = "published" /\ last[p].failures = 1 /\ leaked[p] # {}

\* C17, amended: drop_current with no context published by this process returns
\* true and leaves the singleton zero; of two calls in a row with no publish
\* between them, the first returns true unless its munmap failed, and the second
\* returns true, unmaps nothing and frees nothing.
C17_DropIdempotent ==
  []C17_Unpublished /\ [][C17_FirstFailsOnlyOnMunmap]_vars /\ [][C17_SecondDoesNothing]_vars

\* The second of two calls of drop_current in a row is about to return.
C17_Witness ==
  \E p \in Procs :
    /\ Running(p) /\ pc[p] = "drop_free"
    /\ lv[p].op = "drop_current" /\ lv[p].after = "drop_current"
    /\ lv[p].state = zero_state /\ lv[p].success

\* Every identity value, resource key and resource value of the input is at
\* most 4096 bytes long.
codec_lengths_within_limit(input) ==
  /\ input.len <= KEY_VALUE_LIMIT
  /\ input.pairs > 0 =>
       Len(input.first_key) <= KEY_VALUE_LIMIT /\ Len(input.first_value) <= KEY_VALUE_LIMIT

\* C18: encoding succeeds when every identity value, resource key and resource
\* value is at most 4096 bytes long, at exactly 4096 too, and fails with the
\* "exceeds 4096 limit" error when one of them is 4097 bytes or longer, before
\* calloc is reached: the result is the same with a calloc that would fail.
C18_LengthLimit ==
  codec.phase \in {"encoded", "decoded"} =>
    IF codec_lengths_within_limit(codec.input)
    THEN /\ codec.encoded.success
         /\ codec.encoded.size = Len(codec.encoded.bytes) /\ codec.encoded.size > 0
    ELSE /\ ~codec.encoded.success
         /\ codec.encoded.error_message \in
              { "Length of key in otel_process_ctx_data exceeds 4096 limit",
                "Length of value in otel_process_ctx_data exceeds 4096 limit" }
         /\ codec.encoded.bytes = << >>
         /\ otel_process_ctx_encode_protobuf_payload(codec_data(codec.input), FALSE) = codec.encoded

\* Encoded: a resource key and a resource value of exactly 4096 bytes next to a
\* service.name of 4096 bytes.
C18_Witness ==
  /\ codec.phase = "encoded" /\ codec.encoded.success
  /\ codec.input.len = KEY_VALUE_LIMIT /\ codec.input.pairs > 0
  /\ Len(codec.input.first_key) = KEY_VALUE_LIMIT
  /\ Len(codec.input.first_value) = KEY_VALUE_LIMIT

\* C19: with no call of the library in progress, and whatever munmap returned,
\* every mapped region that carries the signature has the payload pointer of
\* the singleton, and it is that of a buffer that is allocated and has the
\* header's length.
C19_SignedRegionHasLivePayload ==
  \A p \in Procs : quiescent(p) =>
    \A a \in signed_regions(p) :
      /\ maps[p][a].hdr.payload = published_state[p].payload
      /\ maps[p][a].hdr.payload \in allocated(p)
      /\ heap[p][maps[p][a].hdr.payload].size = maps[p][a].hdr.payload_size

C20_AtRest ==
  \A p \in Procs : quiescent(p) => allocated(p) \subseteq {published_state[p].payload}

C20_Step ==
  \A p \in Procs :
    (Running(p) /\ alive'[p])
    => /\ pc[p] = "drop_free" => ~free_is_undefined(heap[p], lv[p].state.payload)
       /\ pc[p] = "update_free" => ~free_is_undefined(heap[p], published_state[p].payload)
       /\ \A b \in Bufs :
            (heap[p][b].status = "alloc" /\ heap'[p][b].status # "alloc")
              => \/ pc[p] = "drop_free" /\ b = lv[p].state.payload
                 \/ pc[p] = "update_free" /\ b = published_state[p].payload

\* C20: after any publish, drop_current and fork, whatever failed, a payload
\* buffer is freed only while it is allocated, so at most once, by the free of
\* drop_current or of update; and with no call in progress the only allocated
\* payload buffer of a process, if there is one, is the singleton's.
C20_PayloadFreedOnce == []C20_AtRest /\ [][C20_Step]_vars

\* The child has dropped the inherited singleton: its copy of the payload is
\* freed, the parent's is allocated.
C20_Witness ==
  /\ quiescent(ChildPid) /\ last[ChildPid].op = "drop_current"
  /\ last[ChildPid].entry = "inherited"
  /\ allocated(ChildPid) = {}
  /\ allocated(ParentPid) = {published_state[ParentPid].payload}

\* The statements of drop_current after the singleton is zeroed.
DropTeardown == {"drop_unmap", "drop_free"}

C21_ZeroedInTeardown ==
  \A p \in Procs : (Running(p) /\ pc[p] \in DropTeardown) => published_state[p] = zero_state

\* A step of drop_current that unmaps a region or frees a buffer.
C21_Releases(p) ==
  /\ alive[p] /\ pc[p] \in {"drop_zero"} \cup DropTeardown
  /\ \/ \E a \in Addrs : maps[p][a].mapped /\ ~maps'[p][a].mapped
     \/ \E b \in Bufs : heap[p][b].status = "alloc" /\ heap'[p][b].status # "alloc"

C21_Step ==
  \A p \in Procs : C21_Releases(p) =>
    /\ published_state[p] = zero_state /\ published_state'[p] = zero_state
    /\ \A a \in Addrs : (maps[p][a].mapped /\ ~maps'[p][a].mapped) => a = lv[p].state.mapping
    /\ \A b \in Bufs : (heap[p][b].status = "alloc" /\ heap'[p][b].status # "alloc") => b = lv[p].state.payload

\* C21: drop_current sets the singleton to all-zero before it unmaps and before
\* it frees: from its munmap call to its return the singleton is all-zero, and
\* the region it unmaps and the buffer it frees are those of the snapshot it
\* took, which the singleton references no more.
C21_ZeroBeforeRelease == []C21_ZeroedInTeardown /\ [][C21_Step]_vars

\* drop_current has unmapped the region of its snapshot and is about to free
\* the payload, still allocated.
C21_Witness ==
  \E p \in Procs :
    /\ Running(p) /\ pc[p] = "drop_free" /\ lv[p].op = "drop_current"
    /\ lv[p].munmap_called /\ lv[p].success
    /\ lv[p].state.mapping \in Addrs /\ ~is_mapped(p, lv[p].state.mapping)
    /\ lv[p].state.payload \in allocated(p)
    /\ published_state[p] = zero_state

\* The mapping field of the singleton holds the address of a mapping.
mapping_set(state) == state.mapping \in Addrs

\* A singleton with its mapping set names a process, and in the parent the parent.
C22_PidWhenMapping ==
  \A p \in Procs : (alive[p] /\ mapping_set(published_state[p])) =>
    /\ published_state[p].publisher_pid \in Procs
    /\ p = ParentPid => published_state[p].publisher_pid = ParentPid

\* A process that stores into the mapping field has its own pid in the
\* singleton already, and the mapping it stores is one it has just created.
C22_MappingStoredUnderPid ==
  \A p \in Procs :
    (/\ alive[p] /\ alive'[p]
     /\ published_state'[p].mapping # published_state[p].mapping
     /\ mapping_set(published_state'[p]))
    => /\ pc[p] = "publish_map_store"
       /\ published_state[p].publisher_pid = p /\ published_state'[p].publisher_pid = p
       /\ published_state'[p].mapping = lv[p].mmap_ret
       /\ maps[p][published_state'[p].mapping].mapped
       /\ maps[p][published_state'[p].mapping].hdr = zero_header

\* While the mapping field is set the pid changes only as the singleton is zeroed.
C22_PidKeptWhileMapping ==
  \A p \in Procs :
    (/\ alive[p] /\ alive'[p] /\ mapping_set(published_state[p])
     /\ published_state'[p].publisher_pid # published_state[p].publisher_pid)
    => published_state'[p] = zero_state

\* What fork gives the child: a singleton whose mapping, when set, goes with the
\* pid of the parent.
C22_ForkGivesParentPid ==
  (~alive[ChildPid] /\ alive'[ChildPid]) =>
    (mapping_set(published_state'[ChildPid]) => published_state'[ChildPid].publisher_pid = ParentPid)

\* C22: in every state, every statement of publish included, a singleton whose
\* mapping field is set holds the pid of the process that created the mapping:
\* the field is stored by a process whose pid is in the singleton already, the
\* pid then stays until the singleton is zeroed, and a fork at any statement
\* gives the child either no mapping or a mapping with the pid of the parent.
C22_PidBeforeMapping ==
  /\ []C22_PidWhenMapping
  /\ [][C22_MappingStoredUnderPid /\ C22_PidKeptWhileMapping /\ C22_ForkGivesParentPid]_vars

\* p is in a call of publish made on a context it had published.
publish_on_published(locals) == locals.op = "publish" /\ locals.entry = "published"

\* What of a region an update leaves alone: that it is mapped, what backs it,
\* its fork advice, and the signature and version of its header.
region_frame(region) ==
  IF region.mapped
  THEN << TRUE, region.memfd, region.dontfork, region.hdr.signature, region.hdr.version >>
  ELSE << FALSE >>

C23_Step ==
  \A p \in Procs :
    (alive[p] /\ alive'[p] /\ (publish_on_published(lv[p]) \/ publish_on_published(lv'[p])))
    => /\ \A a \in Addrs : region_frame(maps'[p][a]) = region_frame(maps[p][a])
       /\ published_state'[p].mapping = published_state[p].mapping
       /\ published_state'[p].publisher_pid = published_state[p].publisher_pid
       /\ \A a \in Addrs : a # published_state[p].mapping => maps'[p][a] = maps[p][a]
       /\ leaked'[p] = leaked[p]

\* During the call the singleton stays published by p, on a signed region.
C23_During ==
  \A p \in Procs : (Running(p) /\ publish_on_published(lv[p])) =>
    /\ ctx_is_published(published_state[p], p)
    /\ current_header(p).signature = "OTEL_CTX" /\ current_header(p).version = 2

\* C23: publish on a context published by this process maps no region and
\* unmaps none; no step of the call changes which addresses are mapped, the
\* signature or the version of a header, or the mapping and publisher_pid of
\* the singleton; what changes is the length, timestamp and pointer of the
\* header, the payload of the singleton and the payload buffers.
C23_UpdateInPlace == []C23_During /\ [][C23_Step]_vars

\* publish(b) returned success on a context it found published: the header has
\* b's length and the singleton a new payload.
C23_Witness ==
  \E p \in Procs :
    /\ publish_returned(p) /\ last[p].entry = "published" /\ last[p].result.success
    /\ last[p].data = "b"
    /\ context_reflects(p, "b", last[p].published_at_ns)
    /\ Cardinality(mapped_regions(p)) = 1

\* A call of publish that was given NULL, or whose clock read failed.
rejected_at_entry(call) ==
  call.op = "publish" /\ (call.data = "NULL" \/ call.published_at_ns = 0)

\* Such a call gets no further than lines 121-126.
C24_NoFurther ==
  \A p \in Procs : (Running(p) /\ pc[p] # "idle") => ~rejected_at_entry(lv[p])

C24_Failure ==
  \A p \in Procs : (Running(p) /\ pc[p] = "idle" /\ rejected_at_entry(last[p])) =>
    /\ ~last[p].result.success
    /\ last[p].result.error_message =
         IF last[p].data = "NULL" THEN "otel_process_ctx_data is NULL" ELSE "Failed to get current time"

C24_Step ==
  \A p \in Procs :
    (alive[p] /\ alive'[p] /\ pc[p] = "idle" /\ last'[p] # last[p] /\ rejected_at_entry(last'[p]))
    => /\ pc'[p] = "idle"
       /\ library_state(p)' = library_state(p)
       /\ leaked'[p] = leaked[p]

\* C24: publish(NULL), and publish when the clock read fails, return failure
\* in one step that leaves the singleton, every region and header and every
\* payload buffer as they were.
C24_RejectedAtEntry == []C24_NoFurther /\ []C24_Failure /\ [][C24_Step]_vars

\* The clock read failed in a publish on a published context, which is left valid.
C24_Witness ==
  \E p \in Procs :
    /\ Running(p) /\ pc[p] = "idle" /\ rejected_at_entry(last[p])
    /\ last[p].data \in ValidInputs /\ last[p].failures = 1
    /\ last[p].entry = "published" /\ context_valid(p)

\* The statements at which publish and update call prctl.
NamingAttempt == {"publish_prctl", "update_prctl"}

\* The naming attempt comes after the commit store.
C25_AfterCommit ==
  \A p \in Procs : Running(p) =>
    /\ pc[p] = "publish_prctl" =>
         /\ current_header(p).signature = "OTEL_CTX"
         /\ header_complete(p, current_header(p))
    /\ pc[p] = "update_prctl" =>
         /\ current_header(p).published_at_ns = lv[p].published_at_ns
         /\ current_header(p).published_at_ns # 0

\* A successful publish returns from its naming attempt, or from the
\* statements of update that follow the naming attempt of update.
C25_Attempted ==
  \A p \in Procs : (alive[p] /\ alive'[p]) =>
    /\ (pc'[p] = "idle" /\ pc[p] # "idle" /\ last'[p].op = "publish" /\ last'[p].result.success)
         => pc[p] \in {"publish_prctl", "update_bookkeeping"}
    /\ (pc'[p] = "update_bookkeeping" /\ pc[p] # pc'[p]) => pc[p] = "update_free"
    /\ (pc'[p] = "update_free" /\ pc[p] # pc'[p]) => pc[p] = "update_prctl"
    /\ (pc'[p] = "update_prctl" /\ pc[p] # pc'[p]) => pc[p] = "update_timestamp"
    /\ (pc'[p] = "publish_prctl" /\ pc[p] # pc'[p]) => pc[p] = "publish_signature"

\* Whatever prctl returns: the header and the singleton stay, publish returns
\* success and update goes on to free the old payload.
C25_Swallowed ==
  \A p \in Procs : (Running(p) /\ pc[p] \in NamingAttempt /\ pc'[p] # pc[p]) =>
    /\ current_header(p)' = current_header(p)
    /\ published_state'[p] = published_state[p]
    /\ heap'[p] = heap[p]
    /\ IF pc[p] = "publish_prctl"
       THEN pc'[p] = "idle" /\ last'[p].result = ok_result
       ELSE pc'[p] = "update_free" /\ lv'[p] = lv[p]

\* C25: every successful publish, creating or updating, has called prctl to
\* name the region, after the signature was stored (publish) or the nonzero
\* timestamp (update); the outcome of prctl changes neither the header nor the
\* singleton nor the result of the call.
C25_NamingSwallowed == []C25_AfterCommit /\ [][C25_Attempted /\ C25_Swallowed]_vars

\* publish returned success on the anonymous fallback mapping, which prctl
\* failed to name.
C25_Witness ==
  \E p \in Procs :
    /\ publish_returned(p) /\ last[p].result.success /\ context_valid(p)
    /\ ~maps[p][published_state[p].mapping].memfd
    /\ ~maps[p][published_state[p].mapping].anon_name

\* The resource pairs of the input whose key names no identity field: those the
\* decoder stores in its resources array.
nonidentity_pairs(input) ==
  IF input.pairs > 0 /\ identity_index(input.first_key) # 0 THEN input.pairs - 1 ELSE input.pairs

\* C26: the encoder encodes any number of resource pairs, 101 too, when the
\* lengths are within the limit; the decoder, when none of its allocations
\* fails, succeeds on the payload when it has at most 100 pairs with a key that
\* names no identity field, and then returns all of them; it fails when the
\* payload has 101, and when an allocation fails.
C26_DecoderCapacity ==
  /\ (codec.phase \in {"encoded", "decoded"} /\ codec_lengths_within_limit(codec.input)) =>
       /\ codec.encoded.success
       /\ codec.encoded.size = Len(codec.encoded.bytes)
       /\ codec.encoded.size >= 10 * codec.input.pairs
  /\ codec.phase = "decoded" =>
       /\ codec.decoded.success <=> (nonidentity_pairs(codec.input) <= 100 /\ codec.fail_at = 0)
       /\ codec.decoded.success => Len(codec.decoded.data.resources) = 2 * nonidentity_pairs(codec.input)

\* A payload of 101 resource pairs was encoded, and the decoder failed on it.
C26_Witness ==
  /\ codec.phase = "decoded" /\ codec.encoded.success /\ ~codec.decoded.success /\ codec.fail_at = 0
  /\ codec.input.pairs = 101 /\ nonidentity_pairs(codec.input) = 101

\* Every key and value the encoder is given: the seven identity pairs, then the
\* resource pairs.
all_pairs(data) == identity_pairs(data) \o resource_pairs(data)

\* The lengths write_attribute hands to write_protobuf_varint for a pair: the
\* KeyValue record size, the key length, the AnyValue size, the value length.
varint_lengths(key, value) ==
  { protobuf_otel_keyvalue_string_size(key, value), strlen(key),
    protobuf_string_size(value), strlen(value) }

\* The number a varint of one or two bytes stands for in the protobuf encoding:
\* seven bits a byte, low bits first, the top bit set on all but the last byte.
varint_value(bytes) ==
  IF Len(bytes) = 1 /\ bytes[1] < 128 THEN bytes[1]
  ELSE IF Len(bytes) = 2 /\ bytes[1] >= 128 /\ bytes[2] < 128 THEN (bytes[1] - 128) + 128 * bytes[2]
  ELSE 0 - 1

\* v is written in the one or two bytes counted for it, and they stand for v.
varint_exact(v) ==
  /\ Len(write_protobuf_varint(v)) = protobuf_varint_size(v)
  /\ varint_value(write_protobuf_varint(v)) = v
  /\ read_protobuf_varint(write_protobuf_varint(v), 1, protobuf_varint_size(v) + 1).value = v

\* C27: when every key and value is at most 4096 bytes long, every length the
\* encoder writes as a varint is at most 16383 and is written exactly, in one
\* byte or in two, and the encoder writes as many bytes as the total size it
\* computed and allocated.
C27_VarintsFit ==
  (codec.phase \in {"encoded", "decoded"} /\ codec_lengths_within_limit(codec.input)) =>
    /\ \A i \in 1..(Len(all_pairs(codec_data(codec.input))) \div 2) :
         \A v \in varint_lengths(all_pairs(codec_data(codec.input))[2 * i - 1],
                                 all_pairs(codec_data(codec.input))[2 * i]) :
           v <= UINT14_MAX /\ varint_exact(v)
    /\ codec.encoded.success
    /\ Len(codec.encoded.bytes) = codec.encoded.size

\* Encoded and decoded: a pair with a key and a value of 4096 bytes each, whose
\* KeyValue record size of 8201 takes two bytes.
C27_Witness ==
  /\ codec.phase = "decoded" /\ codec.decoded.success /\ codec.input.pairs > 0
  /\ protobuf_otel_keyvalue_string_size(codec.input.first_key, codec.input.first_value) = 8201
  /\ write_protobuf_varint(8201) = << 137, 64 >>

====
